---- MODULE Spec2Model ----
(***************************************************************************)
(* Model of automancy's renderer (src/src/renderer.rs): the render thread  *)
(* running Renderer::render / Renderer::inner_render, the two tokio fetch  *)
(* tasks it spawns (tile render info, transaction records), the two cache  *)
(* mutexes and "updating" flags they share, and the simulation actor the   *)
(* tasks query.                                                            *)
(***************************************************************************)
EXTENDS Integers, Sequences, FiniteSets, TLC

(* ------------------------------ bounds --------------------------------- *)
\* number of render calls that get past the window size check
MaxFrames == 3
\* number of simulation state changes explored
MaxTicks == 2
\* number of clock advances explored
MaxAdvances == 2
\* largest window / surface dimension explored
MaxDim == 1
\* number of GUI-queued extra instances per frame explored
MaxExtra == 1
\* longest instance list handed to the batcher on its own
MaxBatch == 3
\* elapsed times sampled, in seconds: 0..MaxElapsed, and as many around the
\* first whole number that f32 cannot hold
MaxElapsed == 12
\* largest surface of a screenshot read back on its own, in pixels
MaxShotWidth == 65
MaxShotHeight == 2
\* number of clock advances explored where frames are paced over several
\* update intervals
MaxClock == 5
\* number of ids with translations looked up
MaxIds == 2

(* -------------------------- program constants -------------------------- *)
UPS == 60
\* Duration::from_nanos(1_000_000_000 / UPS), in nanoseconds
UPDATE_INTERVAL == 1000000000 \div UPS
\* granularity of the modelled clock, in nanoseconds: half an interval
TimeStep == UPDATE_INTERVAL \div 2
\* game::TRANSACTION_ANIMATION_SPEED, in nanoseconds
TRANSACTION_ANIMATION_SPEED == 4 * TimeStep
\* significand width of f32, the type `as_secs_f32` converts to
F32_MANTISSA_DIGITS == 24
\* output.texture.format().block_copy_size(None): bytes per pixel of the surface
BLOCK_SIZE == 4
\* wgpu::COPY_BYTES_PER_ROW_ALIGNMENT
COPY_BYTES_PER_ROW_ALIGNMENT == 256
\* wgpu::COPY_BUFFER_ALIGNMENT
COPY_BUFFER_ALIGNMENT == 4

(* ------------------------------ values --------------------------------- *)
\* Option<T>: None, or Some(x) holding x
None == <<>>
Some(x) == <<x>>
Unwrap(o) == o[1]
\* the result of a render call that has not returned yet
Running == "Running"
Coords == {<<0, 0>>, <<1, 0>>}
Dims == 0..MaxDim
WindowSizes == Dims \X Dims
TextureSizes == (1..MaxDim) \X (1..MaxDim)
\* the wgpu::SurfaceError variants
SurfaceErrors == {"Timeout", "Outdated", "Lost", "OutOfMemory"}

\* resource_man.registry.tiles: tile id -> tile definition (model, data)
RegistryTiles ==
    [t \in {"none", "tile"} |->
        IF t = "none"
        THEN [model |-> "none_model", data |-> [key \in {} |-> None]]
        ELSE [model |-> "tile_model",
              data |-> [key \in {"inactive_model"} |-> [type |-> "Id", v |-> "tile_inactive_model"]]]]
\* resource_man.registry.items: item id -> item definition
RegistryItems == [i \in {"item"} |-> [model |-> "item_model"]]
\* resource_man.registry.model_ids.missing
MissingModel == "missing_model"
\* resource_man.registry.model_ids.cube1x1
Cube1x1 == "cube1x1"
\* resource_man.registry.none
RegistryNone == "none"

EmptyMap == [c \in {} |-> None]

\* The simulation's state after v state changes.  The actor is opaque to
\* the renderer; its successive states are an input: a map of known tiles
\* with a held item and a transfer under way, a map whose held item id is not
\* in the resource tables, and a map holding a tile id that the tables do not
\* know.
WorldAt(v) ==
    LET k == v % 3 IN
    IF k = 0 THEN
        [tiles |-> [c \in Coords |-> "tile"],
         data  |-> [c \in {<<0, 0>>} |-> [key \in {"item"} |-> [type |-> "Id", v |-> "item"]]],
         transactions |-> << [source |-> <<0, 0>>, coord |-> <<1, 0>>, instant |-> 0,
                               item_model |-> "item_model"] >>]
    ELSE IF k = 1 THEN
        [tiles |-> [c \in {<<0, 0>>} |-> "tile"],
         data  |-> [c \in {<<0, 0>>} |-> [key \in {"item"} |-> [type |-> "Id", v |-> "stale_item"]]],
         transactions |-> << [source |-> <<0, 0>>, coord |-> <<1, 0>>, instant |-> 0,
                               item_model |-> "stale_model"] >>]
    ELSE
        [tiles |-> [c \in Coords |-> IF c = <<0, 0>> THEN "tile" ELSE "stale_tile"],
         data  |-> [c \in {<<0, 0>>} |-> [key \in {} |-> None]],
         transactions |-> <<>>]

\* a captured map: the simulation state it was read from, and its content
AllDataOf(v) == [ver |-> v, map |-> WorldAt(v).data]
RenderUnitsOf(v) == [ver |-> v, map |-> WorldAt(v).tiles]
\* the simulation keeps a transaction record until its animation duration
\* has elapsed: the records it still holds at time t
Unexpired(records, t, speed) == SelectSeq(records, LAMBDA rec : t - rec.instant <= speed)
\* the reply to GetRecordedTransactions in simulation state v at time t
TransactionsOf(v, t) ==
    [ver |-> v, records |-> Unexpired(WorldAt(v).transactions, t, TRANSACTION_ANIMATION_SPEED)]
\* TransactionRecords::default()
NoTransactions == [ver |-> -1, records |-> <<>>]

RemoveAt(s, i) == [j \in 1..(Len(s) - 1) |-> IF j < i THEN s[j] ELSE s[j + 1]]

(* ------------------------------ state ---------------------------------- *)
VARIABLES
    \* Renderer fields
    render_info_cache,            \* None or [instances, all_data]
    render_info_updating,
    transaction_records_cache,
    transaction_records_updating,
    tile_tints,
    extra_instances,
    last_update,
    last_game_data,
    \* the two tokio mutexes: "free", "render" or "fetch"
    render_info_lock,
    transaction_records_lock,
    \* spawned fetch tasks that have not finished
    tileTasks,
    txTasks,
    \* the render thread: position and the locals of the running call
    renderPc,
    size,
    screenshotting,
    local_tints,
    local_extras,
    game_instances,
    output,
    gpuLog,
    result,
    \* environment
    simVer,
    now,
    \* history: refresh triggers reached, fetch tasks spawned
    tileTriggers,
    tileSpawned,
    txSpawned,
    \* a function of the renderer applied on its own: its input, and the
    \* results of a first and of a second application
    fnIn,
    fnOut,
    fnOut2

vars == << render_info_cache, render_info_updating, transaction_records_cache,
           transaction_records_updating, tile_tints, extra_instances, last_update,
           last_game_data, render_info_lock, transaction_records_lock, tileTasks,
           txTasks, renderPc, size, screenshotting, local_tints, local_extras,
           game_instances, output, gpuLog, result, simVer, now, tileTriggers,
           tileSpawned, txSpawned, fnIn, fnOut, fnOut2 >>

rendererVars == << tile_tints, extra_instances, last_update, last_game_data >>
tileVars == << render_info_cache, render_info_updating, render_info_lock, tileTasks >>
txVars == << transaction_records_cache, transaction_records_updating,
             transaction_records_lock, txTasks >>
frameVars == << size, screenshotting, local_tints, local_extras, game_instances, output,
               gpuLog, result >>
histVars == << tileTriggers, tileSpawned, txSpawned >>
envVars == << simVer, now >>
fnVars == << fnIn, fnOut, fnOut2 >>
programVars == << rendererVars, tileVars, txVars, frameVars, renderPc, envVars, histVars >>

\* Renderer::new
RendererInit ==
    /\ render_info_cache = None
    /\ render_info_updating = FALSE
    /\ transaction_records_cache = NoTransactions
    /\ transaction_records_updating = FALSE
    /\ tile_tints = {}
    /\ extra_instances = <<>>
    /\ last_update = None
    /\ last_game_data = None
    /\ render_info_lock = "free"
    /\ transaction_records_lock = "free"
    /\ tileTasks = <<>>
    /\ txTasks = <<>>
    /\ renderPc = "idle"
    /\ size = <<0, 0>>
    /\ screenshotting = FALSE
    /\ local_tints = {}
    /\ local_extras = <<>>
    /\ game_instances = None
    /\ output = None
    /\ gpuLog = <<>>
    /\ result = Running
    /\ simVer = 0
    /\ now = 0
    /\ tileTriggers = 0
    /\ tileSpawned = 0
    /\ txSpawned = 0

Init ==
    /\ RendererInit
    /\ fnIn = None
    /\ fnOut = None
    /\ fnOut2 = None

(* ---------------------------- environment ------------------------------ *)
\* the simulation actor handles a tick or a tile update
SimTick ==
    /\ simVer < MaxTicks
    /\ simVer' = simVer + 1
    /\ UNCHANGED << rendererVars, tileVars, txVars, frameVars, renderPc, now, histVars >>
    /\ UNCHANGED fnVars

\* wall-clock time passes
AdvanceTime ==
    /\ now < MaxAdvances * TimeStep
    /\ now' = now + TimeStep
    /\ UNCHANGED << rendererVars, tileVars, txVars, frameVars, renderPc, simVer, histVars >>
    /\ UNCHANGED fnVars

\* wall-clock time passes, over several update intervals
ClockTick ==
    /\ now < MaxClock * TimeStep
    /\ now' = now + TimeStep
    /\ UNCHANGED << rendererVars, tileVars, txVars, frameVars, renderPc, simVer, histVars >>
    /\ UNCHANGED fnVars

(* --------------------------- tile fetch task --------------------------- *)
\* the step that follows step pc in a task body
After(order, pc) == order[(CHOOSE i \in DOMAIN order : order[i] = pc) + 1]

\* the tasks after task i has taken its step: it is at its next step, or
\* finished and gone
Advance(tasks, i, order) ==
    IF After(order, tasks[i].pc) = "done" THEN RemoveAt(tasks, i)
    ELSE [tasks EXCEPT ![i].pc = After(order, tasks[i].pc)]

\* mutant: the flag is cleared before the cache is locked and written
TileFetchOrderClearFirst == << "call_data", "call_units", "clear", "lock", "store", "done" >>

\* mutant: the task ends after the replies without storing them
TileFetchOrderDropsResult == << "call_data", "call_units", "clear", "done" >>

\* mutant: the cache is locked first and the guard is kept across both awaits
TileFetchOrderLockFirst == << "lock", "call_data", "call_units", "store", "clear", "done" >>

\* renderer.rs:195-216, the steps of the task body in program order: await
\* GetAllData, await GetAllRenderUnits, lock the cache, store, clear the flag
TileFetchOrder == << "call_data", "call_units", "lock", "store", "clear", "done" >>

\* the task spawned at renderer.rs:195, at its first step
NewTileTask == [pc |-> Head(TileFetchOrder), all_data |-> None, instances |-> None]

\* the actor replies to GetAllData
TileFetchGotAllData ==
    /\ \E i \in DOMAIN tileTasks :
        /\ tileTasks[i].pc = "call_data"
        /\ tileTasks' = [tileTasks EXCEPT ![i] =
                            [@ EXCEPT !.pc = After(TileFetchOrder, "call_data"),
                                       !.all_data = Some(AllDataOf(simVer))]]
    /\ UNCHANGED << render_info_cache, render_info_updating, render_info_lock >>
    /\ UNCHANGED << rendererVars, txVars, frameVars, renderPc, envVars, histVars >>
    /\ UNCHANGED fnVars

\* the actor replies to GetAllRenderUnits
TileFetchGotRenderUnits ==
    /\ \E i \in DOMAIN tileTasks :
        /\ tileTasks[i].pc = "call_units"
        /\ tileTasks' = [tileTasks EXCEPT ![i] =
                            [@ EXCEPT !.pc = After(TileFetchOrder, "call_units"),
                                       !.instances = Some(RenderUnitsOf(simVer))]]
    /\ UNCHANGED << render_info_cache, render_info_updating, render_info_lock >>
    /\ UNCHANGED << rendererVars, txVars, frameVars, renderPc, envVars, histVars >>
    /\ UNCHANGED fnVars

\* a call fails (actor stopped, timeout, dropped reply): unwrap() panics and
\* the task ends there; the runtime catches the panic
TileFetchCallFails ==
    /\ \E i \in DOMAIN tileTasks :
        /\ tileTasks[i].pc \in {"call_data", "call_units"}
        /\ tileTasks' = RemoveAt(tileTasks, i)
    /\ UNCHANGED << render_info_cache, render_info_updating, render_info_lock >>
    /\ UNCHANGED << rendererVars, txVars, frameVars, renderPc, envVars, histVars >>
    /\ UNCHANGED fnVars

\* cache.lock().await
TileFetchLock ==
    /\ render_info_lock = "free"
    /\ \E i \in DOMAIN tileTasks :
        /\ tileTasks[i].pc = "lock"
        /\ tileTasks' = [tileTasks EXCEPT ![i].pc = After(TileFetchOrder, "lock")]
    /\ render_info_lock' = "fetch"
    /\ UNCHANGED << render_info_cache, render_info_updating >>
    /\ UNCHANGED << rendererVars, txVars, frameVars, renderPc, envVars, histVars >>
    /\ UNCHANGED fnVars

\* mutant: the store replaces the render units and keeps the tile data that
\* the cache already holds
TileFetchStoreUnitsOnly ==
    /\ \E i \in DOMAIN tileTasks :
        /\ tileTasks[i].pc = "store"
        /\ render_info_cache' =
              Some([instances |-> Unwrap(tileTasks[i].instances),
                    all_data |-> IF render_info_cache = None
                                 THEN Unwrap(tileTasks[i].all_data)
                                 ELSE Unwrap(render_info_cache).all_data])
        /\ tileTasks' = Advance(tileTasks, i, TileFetchOrder)
    /\ render_info_lock' = "free"
    /\ UNCHANGED render_info_updating
    /\ UNCHANGED << rendererVars, txVars, frameVars, renderPc, envVars, histVars >>
    /\ UNCHANGED fnVars

\* *guard = Some((instances, all_data)); the guard is dropped with the statement
TileFetchStore ==
    /\ \E i \in DOMAIN tileTasks :
        /\ tileTasks[i].pc = "store"
        /\ render_info_cache' = Some([instances |-> Unwrap(tileTasks[i].instances),
                                      all_data |-> Unwrap(tileTasks[i].all_data)])
        /\ tileTasks' = Advance(tileTasks, i, TileFetchOrder)
    /\ render_info_lock' = "free"
    /\ UNCHANGED render_info_updating
    /\ UNCHANGED << rendererVars, txVars, frameVars, renderPc, envVars, histVars >>
    /\ UNCHANGED fnVars

\* updating.store(false), the last step of the task
TileFetchClear ==
    /\ \E i \in DOMAIN tileTasks :
        /\ tileTasks[i].pc = "clear"
        /\ tileTasks' = Advance(tileTasks, i, TileFetchOrder)
    /\ render_info_updating' = FALSE
    /\ UNCHANGED << render_info_cache, render_info_lock >>
    /\ UNCHANGED << rendererVars, txVars, frameVars, renderPc, envVars, histVars >>
    /\ UNCHANGED fnVars

(* --------------------- transaction-record fetch task ------------------- *)
\* mutant: the cache is locked first and the guard is kept across the await
TxFetchOrderLockFirst == << "lock", "call", "store", "clear", "done" >>

\* renderer.rs:232-242, the steps of the task body in program order
TxFetchOrder == << "call", "lock", "store", "clear", "done" >>

NewTxTask == [pc |-> Head(TxFetchOrder), result |-> None]

TxFetchGotTransactions ==
    /\ \E i \in DOMAIN txTasks :
        /\ txTasks[i].pc = "call"
        /\ txTasks' = [txTasks EXCEPT ![i] =
                          [@ EXCEPT !.pc = After(TxFetchOrder, "call"),
                                     !.result = Some(TransactionsOf(simVer, now))]]
    /\ UNCHANGED << transaction_records_cache, transaction_records_updating,
                    transaction_records_lock >>
    /\ UNCHANGED << rendererVars, tileVars, frameVars, renderPc, envVars, histVars >>
    /\ UNCHANGED fnVars

TxFetchCallFails ==
    /\ \E i \in DOMAIN txTasks :
        /\ txTasks[i].pc = "call"
        /\ txTasks' = RemoveAt(txTasks, i)
    /\ UNCHANGED << transaction_records_cache, transaction_records_updating,
                    transaction_records_lock >>
    /\ UNCHANGED << rendererVars, tileVars, frameVars, renderPc, envVars, histVars >>
    /\ UNCHANGED fnVars

TxFetchLock ==
    /\ transaction_records_lock = "free"
    /\ \E i \in DOMAIN txTasks :
        /\ txTasks[i].pc = "lock"
        /\ txTasks' = [txTasks EXCEPT ![i].pc = After(TxFetchOrder, "lock")]
    /\ transaction_records_lock' = "fetch"
    /\ UNCHANGED << transaction_records_cache, transaction_records_updating >>
    /\ UNCHANGED << rendererVars, tileVars, frameVars, renderPc, envVars, histVars >>
    /\ UNCHANGED fnVars

TxFetchStore ==
    /\ \E i \in DOMAIN txTasks :
        /\ txTasks[i].pc = "store"
        /\ transaction_records_cache' = Unwrap(txTasks[i].result)
        /\ txTasks' = Advance(txTasks, i, TxFetchOrder)
    /\ transaction_records_lock' = "free"
    /\ UNCHANGED transaction_records_updating
    /\ UNCHANGED << rendererVars, tileVars, frameVars, renderPc, envVars, histVars >>
    /\ UNCHANGED fnVars

TxFetchClear ==
    /\ \E i \in DOMAIN txTasks :
        /\ txTasks[i].pc = "clear"
        /\ txTasks' = Advance(txTasks, i, TxFetchOrder)
    /\ transaction_records_updating' = FALSE
    /\ UNCHANGED << transaction_records_cache, transaction_records_lock >>
    /\ UNCHANGED << rendererVars, tileVars, frameVars, renderPc, envVars, histVars >>
    /\ UNCHANGED fnVars

(* ---------------------- pure helpers of render ------------------------- *)
\* the enumerations of a finite set: the orders in which a HashMap may be iterated
Orders(S) == {o \in [1..Cardinality(S) -> S] : \A i, j \in 1..Cardinality(S) : i # j => o[i] # o[j]}

\* camera.get_pos(), as the grid coordinate the camera is centred on
CameraCoord == <<0, 0>>
\* camera.culling_range, as the set of coordinates it contains
CullingRange == Coords

\* squared distance between the world positions of two hex coordinates
\* (axial coordinates, unit hex spacing)
DistanceSquared(a, b) ==
    LET q == a[1] - b[1]
        r == a[2] - b[2]
    IN  q * q + q * r + r * r

\* mutant: a fetch is spawned on every refresh trigger, whatever the flag says
ShouldSpawnAlways(updating) == TRUE

\* mutant: no fetch is ever spawned
ShouldSpawnNever(updating) == FALSE

\* `if !self.render_info_updating.load(..)` / `if !self.transaction_records_updating.load(..)`
ShouldSpawn(updating) == ~updating

\* resource_man.item_model_or_missing(model)
AllModels == {"none_model", "tile_model", "tile_inactive_model", "item_model", Cube1x1, MissingModel}
ItemModelOrMissing(model) == IF model \in AllModels THEN model ELSE MissingModel
\* resource_man.tile_model_or_missing(model)
TileModelOrMissing(model) == IF model \in AllModels THEN model ELSE MissingModel

Instance(kind, coord, model, tint) == [kind |-> kind, coord |-> coord, model |-> model, tint |-> tint]

\* HEX_GRID_LAYOUT.hex_to_world_pos, on an integer grid
WorldPos(c) == << 2 * c[1] + c[2], 3 * c[2] >>

\* lerp_coords_to_pixel(a, b, t) for t = elapsed / TRANSACTION_ANIMATION_SPEED:
\* a + (b - a) * t, in units of 1 / TRANSACTION_ANIMATION_SPEED of the grid unit
LerpCoordsToPixel(a, b, elapsed) ==
    [k \in 1..2 |-> WorldPos(a)[k] * (TRANSACTION_ANIMATION_SPEED - elapsed)
                     + WorldPos(b)[k] * elapsed]

\* renderer.rs:252, `now.duration_since(*instant)`, zero for a later instant
DurationSince(t, instant) == IF t >= instant THEN t - instant ELSE 0

\* mutant: the interpolation runs from the destination to the source
TransactionPointReversed(rec, t) ==
    LerpCoordsToPixel(rec.coord, rec.source, DurationSince(t, rec.instant))

\* renderer.rs:252-255, the point a record's instance is drawn at, at time t
TransactionPoint(rec, t) ==
    LerpCoordsToPixel(rec.source, rec.coord, DurationSince(t, rec.instant))

\* renderer.rs:247-277, one instance per cached transaction record in range,
\* placed at its interpolated point
RECURSIVE TransactionInstances(_, _)
TransactionInstances(records, t) ==
    IF records = <<>> THEN <<>>
    ELSE LET rec == Head(records) IN
         (IF rec.source \in CullingRange /\ rec.coord \in CullingRange
          THEN << Instance("transaction", TransactionPoint(rec, t),
                           ItemModelOrMissing(rec.item_model), FALSE) >>
          ELSE <<>>)
         \o TransactionInstances(Tail(records), t)

HasId(data, key) == key \in DOMAIN data /\ data[key].type = "Id"
HasCoord(data, key) == key \in DOMAIN data /\ data[key].type = "Coord"

\* renderer.rs:304, `resource_man.registry.items[id]` panics on an id without entry
ItemLookupPanics(all_data) ==
    \E c \in DOMAIN all_data : HasId(all_data[c], "item") /\ all_data[c]["item"].v \notin DOMAIN RegistryItems

\* renderer.rs:311 and :389, `resource_man.registry.tiles.get(id).unwrap()`
TileLookupPanics(render_info) ==
    \E c \in DOMAIN render_info : render_info[c] \notin DOMAIN RegistryTiles

\* math::tile_direction_to_angle is defined for the six unit directions of the
\* hex grid, in axial coordinates
HexDirections == {<<1, 0>>, <<0, 1>>, <<-1, 1>>, <<-1, 0>>, <<0, -1>>, <<1, -1>>}

\* renderer.rs:313-322, the facing angle of the tile at coord, if defined: its
\* data holds a Coord under `direction` that is one of the unit directions
HasDirection(all_data, coord) ==
    /\ coord \in DOMAIN all_data
    /\ HasCoord(all_data[coord], "direction")
    /\ all_data[coord]["direction"].v \in HexDirections

\* renderer.rs:280-308, in the iteration order `order` of all_data
RECURSIVE DataInstances(_, _)
DataInstances(all_data, order) ==
    IF order = <<>> THEN <<>>
    ELSE LET c == Head(order)
             data == all_data[c]
         IN  (IF HasCoord(data, "link") THEN << Instance("link", c, Cube1x1, FALSE) >> ELSE <<>>)
             \o (IF HasId(data, "item")
                 THEN << Instance("item", c, RegistryItems[data["item"].v].model, FALSE) >>
                 ELSE <<>>)
             \o DataInstances(all_data, Tail(order))

\* colors::ORANGE
DefaultDirectionColor == [type |-> "Color", v |-> "ORANGE"]

\* renderer.rs:324-327, the tile definition's entry under `direction_color`,
\* or the orange colour when it has none
DirectionColor(tile) ==
    IF "direction_color" \in DOMAIN tile.data THEN tile.data["direction_color"]
    ELSE DefaultDirectionColor

\* renderer.rs:329-342, the arrow pushed for the tile at coord
ArrowInstance(coord, color) ==
    [kind |-> "arrow", coord |-> coord, model |-> Cube1x1, tint |-> FALSE, color |-> color]

\* renderer.rs:310-345, in the iteration order `order` of render_info, with
\* the tile definitions `tiles`: the arrow of a directed tile is pushed when
\* the direction colour matches Data::Color
RECURSIVE ArrowInstances(_, _, _, _)
ArrowInstances(all_data, render_info, tiles, order) ==
    IF order = <<>> THEN <<>>
    ELSE LET c == Head(order)
             color == DirectionColor(tiles[render_info[c]])
         IN  (IF HasDirection(all_data, c) /\ color.type = "Color"
              THEN << ArrowInstance(c, color.v) >> ELSE <<>>)
             \o ArrowInstances(all_data, render_info, tiles, Tail(order))

\* mutant: the tile instance list is recomputed in every frame
RateLimitedNever(lu, t) == FALSE

\* renderer.rs:347-349, `now - *last_update.get_or_insert_with(now) < UPDATE_INTERVAL`
RateLimited(lu, t) == t - (IF lu = None THEN t ELSE Unwrap(lu)) < UPDATE_INTERVAL

\* get_screen_world_bounding_vec(window size, camera_pos): the half extent of
\* the screen in world units; here a screen that shows the camera's tile only
ScreenVec == << 0, 0 >>

\* renderer.rs:357-362, `get_screen_world_bounding_vec(..).as_vec2() + vec2(2.0, 2.0)`
BoundOf(screen) == << screen[1] + 2, screen[2] + 2 >>

\* renderer.rs:368-371, `d = pos - center; d.x <= bound.x && d.y <= bound.y`
WithinBound(coord, center, bound) ==
    /\ WorldPos(coord)[1] - center[1] <= bound[1]
    /\ WorldPos(coord)[2] - center[2] <= bound[2]

\* renderer.rs:355-386, the snapshot plus a filler tile for every coordinate of
\* the culling range that it lacks and that passes the bound test
WithFillers(render_info, range, center, bound) ==
    [c \in (DOMAIN render_info) \cup {r \in range : WithinBound(r, center, bound)} |->
        IF c \in DOMAIN render_info THEN render_info[c] ELSE RegistryNone]

\* renderer.rs:388-411, the model override of an undirected tile whose
\* definition names an inactive model
ModelOverride(id, all_data, coord) ==
    IF ~HasDirection(all_data, coord) /\ HasId(RegistryTiles[id].data, "inactive_model")
    THEN Some(TileModelOrMissing(RegistryTiles[id].data["inactive_model"].v))
    ELSE None

\* renderer.rs:428-436, the model drawn for a tile id
TileModel(id, all_data, coord) ==
    LET model == IF id \in DOMAIN RegistryTiles THEN RegistryTiles[id].model ELSE MissingModel
        override == ModelOverride(id, all_data, coord)
    IN  IF override # None THEN Unwrap(override) ELSE model

\* mutant: the list is left in the iteration order of the map
SortedOrdersUnsorted(S) == Orders(S)

\* mutant: the sorted list is not reversed, the nearest tile comes first
SortedOrdersNearestFirst(S) ==
    {o \in Orders(S) : \A i, j \in 1..Cardinality(S) :
        i < j => DistanceSquared(CameraCoord, o[i]) <= DistanceSquared(CameraCoord, o[j])}

\* renderer.rs:426-460: the orders `sort_by(distance).rev()` can produce from
\* some iteration order of the map: farthest first, ties in any order
SortedOrders(S) ==
    {o \in Orders(S) : \A i, j \in 1..Cardinality(S) :
        i < j => DistanceSquared(CameraCoord, o[i]) >= DistanceSquared(CameraCoord, o[j])}

\* renderer.rs:413-460, the tile instance list in the order `order`
TileInstances(render_info, all_data, tints, order) ==
    [i \in 1..Len(order) |->
        Instance("tile", order[i], TileModel(render_info[order[i]], all_data, order[i]),
                 order[i] \in tints)]

\* the model identifiers in the order of their Id values
ModelIds ==
    << Cube1x1, "item_model", MissingModel, "none_model", "tile_inactive_model", "tile_model" >>

\* stable sort by model identifier: the instances of each identifier in turn,
\* in their original relative order
RECURSIVE SortByModel(_, _)
SortByModel(instances, ids) ==
    IF ids = <<>> THEN <<>>
    ELSE SelectSeq(instances, LAMBDA x : x.model = Head(ids)) \o SortByModel(instances, Tail(ids))

\* length of the run of equal model identifiers that starts the list
RECURSIVE RunLength(_)
RunLength(instances) ==
    IF Len(instances) <= 1 THEN Len(instances)
    ELSE IF instances[2].model = instances[1].model THEN 1 + RunLength(Tail(instances))
    ELSE 1

\* one indirect-draw descriptor per run of the list, first_instance counted
\* from `first`
RECURSIVE Draws(_, _)
Draws(instances, first) ==
    IF instances = <<>> THEN <<>>
    ELSE LET n == RunLength(instances) IN
         << [model |-> instances[1].model, first_instance |-> first, instance_count |-> n] >>
         \o Draws(SubSeq(instances, n + 1, Len(instances)), first + n)

\* what a batcher hands back: the packed instances, the descriptors and their number
Batch(instances, draws) == [instances |-> instances, draws |-> draws, count |-> Len(draws)]

Reverse(q) == [i \in 1..Len(q) |-> q[Len(q) + 1 - i]]

\* mutant: the runs are taken from the list as given, without sorting it
IndirectInstanceUnsorted(instances) == Batch(instances, Draws(instances, 0))

\* mutant: the order of the descriptors depends on what an earlier run left behind
IndirectInstanceAmbient(instances) ==
    LET sorted == SortByModel(instances, ModelIds) IN
    Batch(sorted, IF fnOut = None THEN Draws(sorted, 0) ELSE Reverse(Draws(sorted, 0)))

\* gpu::indirect_instance: the instances packed in model order, and one
\* descriptor per run of equal models
IndirectInstance(instances) ==
    LET sorted == SortByModel(instances, ModelIds) IN Batch(sorted, Draws(sorted, 0))

(* ------------------------- inner_render, as a log ---------------------- *)
\* one GPU operation: what was called, on what, and for a render pass the
\* load operation of each attachment
Op(op, what, targets) == [op |-> op, what |-> what, targets |-> targets]
NoTargets == [t \in {} |-> None]
GameTargets(load) == [t \in {"game", "normal", "model", "depth"} |-> load]

\* mutant: the draw is issued whatever the number of descriptors
BatchDrawUnguarded(res, batch) ==
    << Op("write_buffer", res \o ".uniform_buffer", NoTargets),
       Op("write_buffer", res \o ".matrix_data_buffer", NoTargets),
       Op("multi_draw_indexed_indirect", res, NoTargets) >>

\* renderer.rs:590-632 and :701-737, the draw of a batch with at least one draw call
BatchDraw(res, batch) ==
    IF batch.count > 0
    THEN << Op("write_buffer", res \o ".uniform_buffer", NoTargets),
            Op("write_buffer", res \o ".matrix_data_buffer", NoTargets),
            Op("multi_draw_indexed_indirect", res, NoTargets) >>
    ELSE <<>>

\* renderer.rs:521-633
ExtraObjectsPass(extra_game_data) ==
    << Op("create_or_write_buffer", "extra_objects.instance_buffer", NoTargets),
       Op("create_or_write_buffer", "extra_objects.indirect_buffer", NoTargets),
       Op("begin_render_pass", "Extra Objects Render Pass", GameTargets("Clear")) >>
    \o BatchDraw("extra_objects", extra_game_data)

\* mutant: the main tile pass is never recorded
GamePassNever(game_data) == <<>>

\* renderer.rs:635-738, with the batch chosen at :635
GamePass(game_data) ==
    IF game_data = None THEN <<>>
    ELSE << Op("create_or_write_buffer", "game.instance_buffer", NoTargets),
            Op("create_or_write_buffer", "game.indirect_buffer", NoTargets),
            Op("begin_render_pass", "Game Render Pass", GameTargets("Load")) >>
         \o BatchDraw("game", Unwrap(game_data))

\* renderer.rs:740-902
ScreenPasses ==
    << Op("write_buffer", "post_processing.uniform_buffer", NoTargets),
       Op("begin_render_pass", "Game Post Processing Render Pass",
          [t \in {"game_post_processing"} |-> "Clear"]),
       Op("draw", "post_processing", NoTargets),
       Op("begin_render_pass", "Game Antialiasing Render Pass",
          [t \in {"game_antialiasing"} |-> "Clear"]),
       Op("draw", "fxaa", NoTargets),
       Op("begin_render_pass", "yakui Render Pass", [t \in {"gui"} |-> "Clear"]),
       Op("paint_with", "gui", NoTargets),
       Op("begin_render_pass", "Combine Render Pass", [t \in {"first_combine"} |-> "Clear"]),
       Op("draw", "combine", NoTargets),
       Op("begin_render_pass", "Present Pass", [t \in {"surface"} |-> "Clear"]),
       Op("draw", "present", NoTargets) >>

\* renderer.rs:913-975
ScreenshotCopy(shot) ==
    IF shot
    THEN << Op("create_texture", "Screenshot Intermediate Texture", NoTargets),
            Op("begin_render_pass", "Screenshot Intermediate Pass",
               [t \in {"intermediate"} |-> "Load"]),
            Op("draw", "screenshot", NoTargets),
            Op("create_buffer", "Screenshot Buffer", NoTargets),
            Op("copy_texture_to_buffer", "Screenshot Buffer", NoTargets) >>
    ELSE <<>>

\* mutant: the staging buffer is mapped and waited for before the submission
SubmitAndPresentMapFirst(shot) ==
    (IF shot
     THEN << Op("map_async", "Screenshot Buffer", NoTargets),
             Op("poll_wait", "device", NoTargets) >>
     ELSE <<>>)
    \o << Op("submit", "queue", NoTargets) >>
    \o (IF shot
        THEN << Op("set_image", "clipboard", NoTargets),
                Op("unmap", "Screenshot Buffer", NoTargets) >>
        ELSE <<>>)
    \o << Op("pre_present_notify", "window", NoTargets),
          Op("present", "surface", NoTargets) >>

\* renderer.rs:977-1020
SubmitAndPresent(shot) ==
    << Op("submit", "queue", NoTargets) >>
    \o (IF shot
        THEN << Op("map_async", "Screenshot Buffer", NoTargets),
                Op("poll_wait", "device", NoTargets),
                Op("set_image", "clipboard", NoTargets),
                Op("unmap", "Screenshot Buffer", NoTargets) >>
        ELSE <<>>)
    \o << Op("pre_present_notify", "window", NoTargets),
          Op("present", "surface", NoTargets) >>

\* mutant: only a freshly recomputed batch is drawn and kept
ChosenBatchFreshOnly(game_data, last) == game_data

\* renderer.rs:635, `game_data.take().or(self.last_game_data.take())`
ChosenBatch(game_data, last) == IF game_data # None THEN game_data ELSE last

\* mutant: the main tile pass is recorded before the extra-objects pass
InnerRenderOpsGameFirst(extra_game_data, batch, shot) ==
    GamePass(batch) \o ExtraObjectsPass(extra_game_data) \o ScreenPasses
    \o ScreenshotCopy(shot) \o SubmitAndPresent(shot)

\* renderer.rs:514-1020, the operations of a frame that draws, in program order
InnerRenderOps(extra_game_data, batch, shot) ==
    ExtraObjectsPass(extra_game_data) \o GamePass(batch) \o ScreenPasses
    \o ScreenshotCopy(shot) \o SubmitAndPresent(shot)

\* renderer.rs:504, what get_current_texture can yield: an error, or a
\* texture of some size
Acquisitions ==
    [ok : {FALSE}, err : SurfaceErrors, size : {<<0, 0>>}]
    \cup [ok : {TRUE}, err : {"Ok"}, size : TextureSizes]

\* mutant: the acquisition error is swallowed
AcquireFailureSwallowed(acq) == "Ok"

\* renderer.rs:504, `get_current_texture()?`: the value the call returns with
\* when the acquisition failed
AcquireFailure(acq) == acq.err

\* mutant: only the widths are compared
SizeMismatchWidthOnly(output_size, sz) == output_size[1] # sz[1]

\* renderer.rs:509
SizeMismatch(output_size, sz) == output_size[1] # sz[1] \/ output_size[2] # sz[2]

(* ---------------------------- render thread ---------------------------- *)
\* mutant: the frame is skipped only when both dimensions are zero
ZeroSizeBoth(sz) == sz[1] = 0 /\ sz[2] = 0

\* renderer.rs:178
ZeroSize(sz) == sz[1] = 0 \/ sz[2] = 0

\* mutant: the absent snapshot is unwrapped
OnAbsentSnapshotUnwrap == [pc |-> "panicked", result |-> "Panic"]

\* renderer.rs:220-222, the let-else on an absent snapshot: `return Ok(())`
OnAbsentSnapshot == [pc |-> "returned", result |-> "Ok"]

\* mutant: the value stays in the field and the call works on the default
MemPeek(field, default) == [taken |-> default, left |-> field]

\* mutant: the value is copied and the field keeps it
MemClone(field, default) == [taken |-> field, left |-> field]

\* renderer.rs:173-174, mem::take: the value moved out of a field, and the
\* default left in its place
MemTake(field, default) == [taken |-> field, left |-> default]

\* renderer.rs:163-186: take the overlay maps, read the window's inner size
\* (whatever the OS reports at that moment)
RenderBegin ==
    /\ renderPc = "idle"
    /\ tileTriggers < MaxFrames
    /\ \E shot \in BOOLEAN : screenshotting' = shot
    /\ local_tints' = MemTake(tile_tints, {}).taken
    /\ tile_tints' = MemTake(tile_tints, {}).left
    /\ local_extras' = MemTake(extra_instances, <<>>).taken
    /\ extra_instances' = MemTake(extra_instances, <<>>).left
    /\ \E s \in WindowSizes :
        /\ size' = s
        /\ IF ZeroSize(s)
           THEN result' = "Ok" /\ renderPc' = "returned"
           ELSE result' = Running /\ renderPc' = "tile_trigger"
    /\ UNCHANGED << last_update, last_game_data, game_instances, output, gpuLog >>
    /\ UNCHANGED << tileVars, txVars, envVars, histVars >>
    /\ UNCHANGED fnVars

\* renderer.rs:188-217
RenderTileTrigger ==
    /\ renderPc = "tile_trigger"
    /\ tileTriggers' = tileTriggers + 1
    /\ IF ShouldSpawn(render_info_updating)
       THEN /\ render_info_updating' = TRUE
            /\ tileTasks' = Append(tileTasks, NewTileTask)
            /\ tileSpawned' = tileSpawned + 1
       ELSE UNCHANGED << render_info_updating, tileTasks, tileSpawned >>
    /\ renderPc' = "tile_lock"
    /\ UNCHANGED << render_info_cache, render_info_lock >>
    /\ UNCHANGED << rendererVars, txVars, frameVars, envVars, txSpawned >>
    /\ UNCHANGED fnVars

\* renderer.rs:219-222: blocking_lock, and the early return on an absent snapshot
RenderTileLock ==
    /\ renderPc = "tile_lock"
    /\ render_info_lock = "free"
    /\ IF render_info_cache = None
       THEN /\ result' = OnAbsentSnapshot.result
            /\ renderPc' = OnAbsentSnapshot.pc
            /\ UNCHANGED render_info_lock
       ELSE /\ render_info_lock' = "render"
            /\ renderPc' = "tx_trigger"
            /\ UNCHANGED result
    /\ UNCHANGED << render_info_cache, render_info_updating, tileTasks >>
    /\ UNCHANGED << size, screenshotting, local_tints, local_extras, game_instances, output,
                    gpuLog >>
    /\ UNCHANGED << rendererVars, txVars, envVars, histVars >>
    /\ UNCHANGED fnVars

\* renderer.rs:225-243
RenderTxTrigger ==
    /\ renderPc = "tx_trigger"
    /\ IF ShouldSpawn(transaction_records_updating)
       THEN /\ transaction_records_updating' = TRUE
            /\ txTasks' = Append(txTasks, NewTxTask)
            /\ txSpawned' = txSpawned + 1
       ELSE UNCHANGED << transaction_records_updating, txTasks, txSpawned >>
    /\ renderPc' = "tx_lock"
    /\ UNCHANGED << transaction_records_cache, transaction_records_lock >>
    /\ UNCHANGED << rendererVars, tileVars, frameVars, envVars, tileTriggers, tileSpawned >>
    /\ UNCHANGED fnVars

\* renderer.rs:245: blocking_lock on the transaction cache
RenderTxLock ==
    /\ renderPc = "tx_lock"
    /\ transaction_records_lock = "free"
    /\ transaction_records_lock' = "render"
    /\ renderPc' = "tx_read"
    /\ UNCHANGED << transaction_records_cache, transaction_records_updating, txTasks >>
    /\ UNCHANGED << rendererVars, tileVars, frameVars, envVars, histVars >>
    /\ UNCHANGED fnVars

\* renderer.rs:247-278: one extra instance per cached record; the guard is dropped
RenderTxRead ==
    /\ renderPc = "tx_read"
    /\ local_extras' = local_extras \o TransactionInstances(transaction_records_cache.records, now)
    /\ transaction_records_lock' = "free"
    /\ renderPc' = "compute"
    /\ UNCHANGED << transaction_records_cache, transaction_records_updating, txTasks >>
    /\ UNCHANGED << size, screenshotting, local_tints, game_instances, output, gpuLog, result >>
    /\ UNCHANGED << rendererVars, tileVars, envVars, histVars >>
    /\ UNCHANGED fnVars

\* renderer.rs:280-468: decorations, the rate-limited recompute of the tile
\* instance list, and the release of the tile cache lock.  A lookup of an id
\* without entry panics; the guard is dropped during unwinding.
RenderCompute ==
    /\ renderPc = "compute"
    /\ LET render_info == Unwrap(render_info_cache).instances.map
           all_data == Unwrap(render_info_cache).all_data.map
       IN  IF ItemLookupPanics(all_data) \/ TileLookupPanics(render_info)
           THEN /\ result' = "Panic"
                /\ renderPc' = "panicked"
                /\ UNCHANGED << local_extras, game_instances, last_update >>
           ELSE /\ \E dataOrder \in Orders(DOMAIN all_data), unitOrder \in Orders(DOMAIN render_info) :
                       local_extras' = local_extras \o DataInstances(all_data, dataOrder)
                                                    \o ArrowInstances(all_data, render_info, RegistryTiles,
                                                                      unitOrder)
                /\ IF RateLimited(last_update, now)
                   THEN /\ game_instances' = None
                        /\ last_update' = IF last_update = None THEN Some(now) ELSE last_update
                   ELSE /\ last_update' = Some(now)
                        /\ LET filled == WithFillers(render_info, CullingRange,
                                                     WorldPos(CameraCoord), BoundOf(ScreenVec))
                           IN  \E order \in SortedOrders(DOMAIN filled) :
                                   game_instances' =
                                       Some(TileInstances(filled, all_data, local_tints, order))
                /\ renderPc' = "inner"
                /\ UNCHANGED result
    /\ render_info_lock' = "free"
    /\ UNCHANGED << render_info_cache, render_info_updating, tileTasks >>
    /\ UNCHANGED << tile_tints, extra_instances, last_game_data >>
    /\ UNCHANGED << size, screenshotting, local_tints, output, gpuLog >>
    /\ UNCHANGED << txVars, envVars, histVars >>
    /\ UNCHANGED fnVars

\* renderer.rs:470-482 and inner_render, renderer.rs:485-1023.  The window's
\* inner size is read again for inner_render (:495) and used once a texture
\* has been acquired (:509).
RenderInner ==
    /\ renderPc = "inner"
    /\ LET game_data == IF game_instances = None THEN None
                        ELSE Some(IndirectInstance(Unwrap(game_instances)))
           extra_game_data == IndirectInstance(local_extras)
           batch == ChosenBatch(game_data, last_game_data)
       IN  \E acq \in Acquisitions :
            LET acquire == << Op("get_current_texture", acq.err, NoTargets) >> IN
            IF ~acq.ok
            THEN /\ output' = Some([texture |-> acq.size, window |-> None])
                 /\ result' = AcquireFailure(acq)
                 /\ gpuLog' = acquire
                 /\ UNCHANGED last_game_data
            ELSE \E inner_size \in WindowSizes :
                 /\ output' = Some([texture |-> acq.size, window |-> inner_size])
                 /\ result' = "Ok"
                 /\ IF SizeMismatch(acq.size, inner_size)
                    THEN /\ gpuLog' = acquire
                         /\ UNCHANGED last_game_data
                    ELSE /\ last_game_data' = batch
                         /\ gpuLog' = acquire
                                \o InnerRenderOps(extra_game_data, batch, screenshotting)
    /\ renderPc' = "returned"
    /\ UNCHANGED << tile_tints, extra_instances, last_update >>
    /\ UNCHANGED << size, screenshotting, local_tints, local_extras, game_instances >>
    /\ UNCHANGED << tileVars, txVars, envVars, histVars >>
    /\ UNCHANGED fnVars

\* the call has returned to the event loop: its locals are gone
RenderReturn ==
    /\ renderPc = "returned"
    /\ renderPc' = "idle"
    /\ size' = <<0, 0>>
    /\ screenshotting' = FALSE
    /\ local_tints' = {}
    /\ local_extras' = <<>>
    /\ game_instances' = None
    /\ output' = None
    /\ gpuLog' = <<>>
    /\ result' = Running
    /\ UNCHANGED << rendererVars, tileVars, txVars, envVars, histVars >>
    /\ UNCHANGED fnVars

(* ------------------------ GUI, between two frames ---------------------- *)
\* gui/mod.rs:745-757, render_ui tints a tile for the coming frame
GuiTint ==
    /\ renderPc = "idle"
    /\ \E c \in Coords : c \notin tile_tints /\ tile_tints' = tile_tints \cup {c}
    /\ UNCHANGED << extra_instances, last_update, last_game_data >>
    /\ UNCHANGED << tileVars, txVars, frameVars, renderPc, envVars, histVars >>
    /\ UNCHANGED fnVars

\* gui/mod.rs:694-706, render_ui queues an extra instance for the coming frame
GuiQueueExtra ==
    /\ renderPc = "idle"
    /\ Len(extra_instances) < MaxExtra
    /\ extra_instances' = Append(extra_instances, Instance("gui", CameraCoord, Cube1x1, FALSE))
    /\ UNCHANGED << tile_tints, last_update, last_game_data >>
    /\ UNCHANGED << tileVars, txVars, frameVars, renderPc, envVars, histVars >>
    /\ UNCHANGED fnVars

(* --------------------------- specifications ---------------------------- *)
\* the render thread
RenderStep ==
    \/ RenderBegin
    \/ RenderTileTrigger
    \/ RenderTileLock
    \/ RenderTxTrigger
    \/ RenderTxLock
    \/ RenderTxRead
    \/ RenderCompute
    \/ RenderInner
    \/ RenderReturn

\* the fetch tasks and the replies of the simulation actor
FetchStep ==
    \/ TileFetchGotAllData
    \/ TileFetchGotRenderUnits
    \/ TileFetchCallFails
    \/ TileFetchLock
    \/ TileFetchStore
    \/ TileFetchClear
    \/ TxFetchGotTransactions
    \/ TxFetchCallFails
    \/ TxFetchLock
    \/ TxFetchStore
    \/ TxFetchClear

\* Render thread and fetch tasks against a simulation whose state changes;
\* the clock stands still and the GUI queues nothing.
Next ==
    \/ RenderStep
    \/ FetchStep
    \/ SimTick

Spec == Init /\ [][Next]_vars

\* Render thread and fetch tasks against a simulation actor that answers
\* every request and whose state is fixed.  The render thread and the tokio runtime keep running what
\* can run; tokio's Mutex hands the lock to its waiters in order, so a task
\* that waits for a lock the render thread takes again and again gets it.
FetchProgress ==
    \/ TileFetchGotAllData
    \/ TileFetchGotRenderUnits
    \/ TileFetchLock
    \/ TileFetchStore
    \/ TileFetchClear
    \/ TxFetchGotTransactions
    \/ TxFetchLock
    \/ TxFetchStore
    \/ TxFetchClear

RenderProgress ==
    \/ RenderTileTrigger
    \/ RenderTileLock
    \/ RenderTxTrigger
    \/ RenderTxLock
    \/ RenderTxRead
    \/ RenderCompute
    \/ RenderInner
    \/ RenderReturn

LiveNext ==
    \/ RenderBegin
    \/ RenderProgress
    \/ FetchProgress

LiveSpec ==
    /\ Init
    /\ [][LiveNext]_vars
    /\ WF_vars(RenderProgress)
    /\ WF_vars(TileFetchGotAllData)
    /\ WF_vars(TileFetchGotRenderUnits)
    /\ SF_vars(TileFetchLock)
    /\ WF_vars(TileFetchStore)
    /\ WF_vars(TileFetchClear)
    /\ WF_vars(TxFetchGotTransactions)
    /\ SF_vars(TxFetchLock)
    /\ WF_vars(TxFetchStore)
    /\ WF_vars(TxFetchClear)

(* -------------------------- animation sampling ------------------------- *)
RECURSIVE Pow2(_)
Pow2(n) == IF n = 0 THEN 1 ELSE 2 * Pow2(n - 1)

\* the spacing of f32 values around the non-negative integer n
RECURSIVE Ulp(_, _)
Ulp(n, q) == IF n < q * Pow2(F32_MANTISSA_DIGITS) THEN q ELSE Ulp(n, 2 * q)

\* renderer.rs:132, Duration::as_secs_f32 of a whole number of seconds:
\* `secs as f32`, rounded to the nearest f32, ties to the even significand
AsSecsF32(secs) ==
    LET q == Ulp(secs, 1)
        lo == (secs \div q) * q
        rem == secs - lo
    IN  IF 2 * rem < q THEN lo
        ELSE IF 2 * rem > q THEN lo + q
        ELSE IF (lo \div q) % 2 = 0 THEN lo ELSE lo + q

\* resource_man.all_models: the registered models and their animation
\* tracks; keyframe times in whole seconds, transforms by name.  A model
\* with two tracks for one part, a model whose tracks for one part are not
\* adjacent, a model with a single track, a model posed by one keyframe at
\* time 0, and a model registered without animation.
AllModelAnims ==
    [m \in {"tile_model", "tile_inactive_model", "item_model", "none_model", Cube1x1} |->
        CASE m = "tile_model" ->
                << [target |-> 1, inputs |-> <<0, 1, 3>>, outputs |-> <<"a0", "a1", "a3">>],
                   [target |-> 1, inputs |-> <<0, 2, 3>>, outputs |-> <<"b0", "b2", "b3">>],
                   [target |-> 2, inputs |-> <<1, 3>>, outputs |-> <<"c1", "c3">>] >>
          [] m = "tile_inactive_model" ->
                << [target |-> 1, inputs |-> <<0, 3>>, outputs |-> <<"e0", "e3">>],
                   [target |-> 2, inputs |-> <<0, 3>>, outputs |-> <<"f0", "f3">>],
                   [target |-> 1, inputs |-> <<0, 3>>, outputs |-> <<"g0", "g3">>] >>
          [] m = "item_model" ->
                << [target |-> 1, inputs |-> <<0, 2>>, outputs |-> <<"d0", "d2">>] >>
          [] m = "none_model" ->
                << [target |-> 1, inputs |-> <<0>>, outputs |-> <<"h0">>] >>
          [] OTHER -> <<>>]

\* renderer.rs:138, `anim.inputs.last().unwrap()`
Last(inputs) == inputs[Len(inputs)]

\* mutant: the elapsed time is compared with the keyframe times unwrapped
KeyframeIndexUnwrapped(anim, elapsed) ==
    Cardinality({i \in DOMAIN anim.inputs : anim.inputs[i] < elapsed})

\* renderer.rs:139-140: `elapsed % last`, an exact operation on two f32
\* values, then partition_point over the ascending keyframe times; the
\* index counts from 0.  `elapsed % 0.0` is NaN, which no keyframe time is
\* less than.
KeyframeIndex(anim, elapsed) ==
    IF Last(anim.inputs) = 0 THEN 0
    ELSE LET wrapped == elapsed % Last(anim.inputs)
         IN  Cardinality({i \in DOMAIN anim.inputs : anim.inputs[i] < wrapped})

\* renderer.rs:142, `anim.outputs[index]`, which panics on an index past the end
OutputAt(outputs, index) ==
    IF index + 1 \in DOMAIN outputs THEN outputs[index + 1] ELSE "IndexOutOfBounds"

\* renderer.rs:135-144, the (target, transform) pair of every track
SampledTracks(anims, elapsed) ==
    [i \in DOMAIN anims |->
        [target |-> anims[i].target,
         output |-> OutputAt(anims[i].outputs, KeyframeIndex(anims[i], elapsed))]]

\* slice::binary_search_by with a comparison that is Less where `less` holds
\* and Greater elsewhere: the insertion index it returns.  The two loops the
\* standard library has had; they agree when `less` holds on a prefix only.
StdBinarySearches == {"halving", "branchless"}
RECURSIVE SearchHalving(_, _, _)
SearchHalving(less, left, right) ==
    IF left >= right THEN left
    ELSE LET mid == left + (right - left) \div 2
         IN  IF less[mid + 1] THEN SearchHalving(less, mid + 1, right)
             ELSE SearchHalving(less, left, mid)
RECURSIVE SearchBranchless(_, _, _)
SearchBranchless(less, base, sz) ==
    IF sz = 0 THEN 0
    ELSE IF sz > 1
    THEN LET half == sz \div 2
         IN  SearchBranchless(less, IF less[base + half + 1] THEN base + half ELSE base, sz - half)
    ELSE IF less[base + 1] THEN base + 1 ELSE base
BinarySearch(less, std) ==
    IF std = "halving" THEN SearchHalving(less, 0, Len(less))
    ELSE SearchBranchless(less, 0, Len(less))

\* renderer.rs:147, binary_group_by_key(|v| v.0): the first group ends where
\* a binary search over the rest of the list places the end of the elements
\* with the key of the first one
RECURSIVE BinaryGroupByKey(_, _)
BinaryGroupByKey(sampled, std) ==
    IF sampled = <<>> THEN <<>>
    ELSE LET rest == Tail(sampled)
             index == BinarySearch([i \in DOMAIN rest |-> rest[i].target = sampled[1].target], std)
         IN  << SubSeq(sampled, 1, index + 1) >>
             \o BinaryGroupByKey(SubSeq(sampled, index + 2, Len(sampled)), std)

\* renderer.rs:146-149: every group is keyed by the target of its first
\* track and holds the product of the transforms of all its tracks, in
\* order, kept as the sequence of its factors; collected into a HashMap, a
\* later group replaces an earlier one of the same key
GroupByTarget(sampled, std) ==
    LET groups == BinaryGroupByKey(sampled, std) IN
    [t \in {groups[g][1].target : g \in DOMAIN groups} |->
        LET g == CHOOSE k \in DOMAIN groups :
                    /\ groups[k][1].target = t
                    /\ \A j \in DOMAIN groups : groups[j][1].target = t => j <= k
        IN  [i \in DOMAIN groups[g] |-> groups[g][i].output]]

\* mutant: a model that is not registered is recorded with no transforms
TryAddAnimationRecordsAbsent(animation_map, model, elapsed, std) ==
    IF model \in DOMAIN animation_map THEN animation_map
    ELSE [m \in DOMAIN animation_map \cup {model} |->
             IF m # model THEN animation_map[m]
             ELSE IF model \in DOMAIN AllModelAnims
             THEN GroupByTarget(SampledTracks(AllModelAnims[model], AsSecsF32(elapsed)), std)
             ELSE EmptyMap]

\* mutant: the model is sampled again although the map holds it
TryAddAnimationResamples(animation_map, model, elapsed, std) ==
    IF model \in DOMAIN AllModelAnims
    THEN [m \in DOMAIN animation_map \cup {model} |->
             IF m = model
             THEN GroupByTarget(SampledTracks(AllModelAnims[model], AsSecsF32(elapsed)), std)
             ELSE animation_map[m]]
    ELSE animation_map

\* renderer.rs:125-160, try_add_animation at `elapsed` seconds after start:
\* the animation map afterwards
TryAddAnimation(animation_map, model, elapsed, std) ==
    IF model \in DOMAIN animation_map THEN animation_map
    ELSE IF model \in DOMAIN AllModelAnims
    THEN [m \in DOMAIN animation_map \cup {model} |->
             IF m = model
             THEN GroupByTarget(SampledTracks(AllModelAnims[model], AsSecsF32(elapsed)), std)
             ELSE animation_map[m]]
    ELSE animation_map

\* renderer.rs:131-159, the value try_add_animation returns
TryAddAnimationResult(animation_map, model) ==
    model \in DOMAIN animation_map \/ model \in DOMAIN AllModelAnims

\* renderer.rs:134, the number of lookups in resource_man.all_models the call makes
AllModelsLookups(animation_map, model) == IF model \in DOMAIN animation_map THEN 0 ELSE 1

\* the models with animation tracks
AnimatedModels == {m \in DOMAIN AllModelAnims : AllModelAnims[m] # <<>>}

\* the last keyframe time of the model's tracks (the modelled tracks of one
\* model end together)
DurationOf(model) == Last(AllModelAnims[model][1].inputs)

\* the first whole number of seconds that f32 cannot hold is F32Exact + 1
F32Exact == Pow2(F32_MANTISSA_DIGITS)
AnimTimes == (0..MaxElapsed) \cup ((F32Exact - 2)..(F32Exact - 2 + MaxElapsed))
AnimInputs == [model : AnimatedModels, t : AnimTimes, std : StdBinarySearches]

\* the model is sampled into a fresh animation map at time t ..
SampleAt ==
    /\ fnOut = None
    /\ fnOut' = Some(TryAddAnimation(EmptyMap, fnIn.model, fnIn.t, fnIn.std))
    /\ UNCHANGED << fnIn, fnOut2, programVars >>

\* .. and into a fresh animation map one track duration later
SampleOnePeriodLater ==
    /\ fnOut # None
    /\ fnOut2 = None
    /\ fnOut2' = Some(TryAddAnimation(EmptyMap, fnIn.model, fnIn.t + DurationOf(fnIn.model),
                                     fnIn.std))
    /\ UNCHANGED << fnIn, fnOut, programVars >>

AnimInit ==
    /\ RendererInit
    /\ fnIn \in AnimInputs
    /\ fnOut = None
    /\ fnOut2 = None

AnimNext ==
    \/ SampleAt
    \/ SampleOnePeriodLater

AnimSpec == AnimInit /\ [][AnimNext]_vars

\* a model id that resource_man.all_models has no entry for
UnregisteredModel == "stale_model"

\* renderer.rs:125-160, one call of try_add_animation on an animation map:
\* the map afterwards, the value returned, the lookups in all_models made
Call(animation_map, model, elapsed, std) ==
    [map |-> TryAddAnimation(animation_map, model, elapsed, std),
     found |-> TryAddAnimationResult(animation_map, model),
     lookups |-> AllModelsLookups(animation_map, model)]

\* the models try_add_animation is called for twice in a frame
CallInputs ==
    [model : DOMAIN AllModelAnims \cup {UnregisteredModel}, t : 0..MaxElapsed,
     std : StdBinarySearches]

\* renderer.rs:438 and :465, the first call for a model in a frame, on the
\* frame's fresh animation map ..
FirstCall ==
    /\ fnOut = None
    /\ fnOut' = Some(Call(EmptyMap, fnIn.model, fnIn.t, fnIn.std))
    /\ UNCHANGED << fnIn, fnOut2, programVars >>

\* .. and a later call for the same model in the same frame, when
\* Instant::now() has moved on
LaterCall ==
    /\ fnOut # None
    /\ fnOut2 = None
    /\ fnOut2' = Some(Call(Unwrap(fnOut).map, fnIn.model, fnIn.t + 1, fnIn.std))
    /\ UNCHANGED << fnIn, fnOut, programVars >>

CallInit ==
    /\ RendererInit
    /\ fnIn \in CallInputs
    /\ fnOut = None
    /\ fnOut2 = None

CallNext ==
    \/ FirstCall
    \/ LaterCall

CallSpec == CallInit /\ [][CallNext]_vars

(* ------------------------- screenshot readback ------------------------- *)
\* renderer.rs:904-906
SizeAlign(sz, alignment) == ((sz + alignment - 1) \div alignment) * alignment

\* renderer.rs:911
PaddedWidth(width) == SizeAlign(width * BLOCK_SIZE, COPY_BYTES_PER_ROW_ALIGNMENT)

\* renderer.rs:951-954, the size of the screenshot buffer
BufferSize(width, height) == SizeAlign(PaddedWidth(width) * height, COPY_BUFFER_ALIGNMENT)

\* the byte of channel ch of the pixel at (row, col) of the intermediate
\* texture; no byte of it is 255
TexelByte(row, col, ch) == (13 * row + 5 * col + ch) % 255

\* renderer.rs:957-968, the buffer after copy_texture_to_buffer with
\* bytes_per_row = padded width: the rows of the texture at multiples of the
\* padded width, and between them bytes that the copy does not define
MappedRange(width, height, pad) ==
    [k \in 1..BufferSize(width, height) |->
        LET row == (k - 1) \div PaddedWidth(width)
            x == (k - 1) % PaddedWidth(width)
        IN  IF x < width * BLOCK_SIZE THEN TexelByte(row, x \div BLOCK_SIZE, x % BLOCK_SIZE)
            ELSE pad]

\* slice::chunks_exact(n): the consecutive whole chunks of n elements
ChunksExact(data, n) == [i \in 1..(Len(data) \div n) |-> SubSeq(data, (i - 1) * n + 1, i * n)]

\* renderer.rs:1006, the four bytes kept of a pixel
OpaquePixel(pixel) == << pixel[1], pixel[2], pixel[3], 255 >>

\* `result.extend(..)` with every part in turn
RECURSIVE ExtendAll(_, _)
ExtendAll(parts, i) == IF i > Len(parts) THEN <<>> ELSE parts[i] \o ExtendAll(parts, i + 1)

\* the pixels of a row of bytes, each made opaque
Pixels(bytes) ==
    LET pixels == ChunksExact(bytes, 4)
    IN  ExtendAll([i \in DOMAIN pixels |-> OpaquePixel(pixels[i])], 1)

\* mutant: the whole padded row is kept
RowPixelsPadded(chunk, texture_width) == Pixels(chunk)

\* renderer.rs:1005-1007, the pixels of one padded row: `chunk[..texture_width]`
RowPixels(chunk, texture_width) == Pixels(SubSeq(chunk, 1, texture_width))

\* renderer.rs:1001-1008, the bytes handed to the image
Readback(data, width) ==
    LET texture_width == width * BLOCK_SIZE
        chunks == ChunksExact(data, PaddedWidth(width))
    IN  ExtendAll([i \in DOMAIN chunks |-> RowPixels(chunks[i], texture_width)], 1)

\* the surface sizes and the undefined padding byte of the screenshots read back
ShotInputs == [width : 1..MaxShotWidth, height : 1..MaxShotHeight, pad : {0, 170}]

\* renderer.rs:993-1012, the readback of a submitted screenshot frame
ReadScreenshot ==
    /\ fnOut = None
    /\ fnOut' = Some(Readback(MappedRange(fnIn.width, fnIn.height, fnIn.pad), fnIn.width))
    /\ UNCHANGED << fnIn, fnOut2, programVars >>

ShotInit ==
    /\ RendererInit
    /\ fnIn \in ShotInputs
    /\ fnOut = None
    /\ fnOut2 = None

ShotSpec == ShotInit /\ [][ReadScreenshot]_vars

(* -------------------------- translation lookups ------------------------ *)
\* translate.rs:15-29, a TranslateDef: the two fallback strings and the
\* per-kind tables from id to translated name
TranslateDef(items, tiles, categories, scripts) ==
    [none |-> "<none>", unnamed |-> "<unnamed>",
     items |-> items, tiles |-> tiles, categories |-> categories, scripts |-> scripts]

\* translate.rs:124-129
ItemName(translates, id) ==
    IF id \in DOMAIN translates.items THEN translates.items[id] ELSE translates.unnamed

\* translate.rs:131-137
TryItemName(translates, id) ==
    IF id # None THEN ItemName(translates, Unwrap(id)) ELSE translates.none

\* translate.rs:139-144
ScriptName(translates, id) ==
    IF id \in DOMAIN translates.scripts THEN translates.scripts[id] ELSE translates.unnamed

\* translate.rs:146-152: the Some branch calls item_name
TryScriptName(translates, id) ==
    IF id # None THEN ItemName(translates, Unwrap(id)) ELSE translates.none

\* translate.rs:154-159
TileName(translates, id) ==
    IF id \in DOMAIN translates.tiles THEN translates.tiles[id] ELSE translates.unnamed

\* translate.rs:161-167
TryTileName(translates, id) ==
    IF id # None THEN TileName(translates, Unwrap(id)) ELSE translates.none

\* translate.rs:169-174
CategoryName(translates, id) ==
    IF id \in DOMAIN translates.categories THEN translates.categories[id] ELSE translates.unnamed

\* translate.rs:176-182
TryCategoryName(translates, id) ==
    IF id # None THEN CategoryName(translates, Unwrap(id)) ELSE translates.none

\* the ids and translated names looked up, and the tables over them: every
\* map from some of the ids to names
TranslateIds == 1..MaxIds
TranslateNames == {"furnace", "smelting"}
TranslateTables == UNION {[S -> TranslateNames] : S \in SUBSET TranslateIds}
TranslateInputs ==
    [translates : {TranslateDef(items, [i \in {1} |-> "furnace"], [i \in {} |-> "furnace"], scripts) :
                      items \in TranslateTables, scripts \in TranslateTables},
     id : {None} \cup {Some(i) : i \in TranslateIds}]

\* the four `*_name` lookups of an id (None when there is no id to look up)
\* and the four `try_*_name` lookups of the optional id
LookUpNames ==
    /\ fnOut = None
    /\ LET tr == fnIn.translates
           id == fnIn.id
           Plain(Name(_, _)) == IF id = None THEN None ELSE Some(Name(tr, Unwrap(id)))
       IN  fnOut' = Some([item |-> Plain(ItemName), try_item |-> TryItemName(tr, id),
                          script |-> Plain(ScriptName), try_script |-> TryScriptName(tr, id),
                          tile |-> Plain(TileName), try_tile |-> TryTileName(tr, id),
                          category |-> Plain(CategoryName),
                          try_category |-> TryCategoryName(tr, id)])
    /\ UNCHANGED << fnIn, fnOut2, programVars >>

TranslateInit ==
    /\ RendererInit
    /\ fnIn \in TranslateInputs
    /\ fnOut = None
    /\ fnOut2 = None

TranslateSpec == TranslateInit /\ [][LookUpNames]_vars

(* ---------------------- the decorations on their own ------------------- *)
\* what a tile's data can hold under a key: nothing, or a value of some type
LinkValues == {None, Some([type |-> "Coord", v |-> <<1, 0>>]), Some([type |-> "Id", v |-> "item"])}
ItemValues == {None, Some([type |-> "Id", v |-> "item"])}
DirectionValues ==
    {None, Some([type |-> "Coord", v |-> <<1, 0>>]), Some([type |-> "Coord", v |-> <<2, 0>>]),
     Some([type |-> "Id", v |-> "item"])}
\* what a tile definition can hold under `direction_color`
DirectionColorValues ==
    {None, Some([type |-> "Color", v |-> "BLUE"]), Some([type |-> "Id", v |-> "item"])}

\* the data map with the given entries
DataMapOf(link, item, direction) ==
    LET val == [key \in {"link", "item", "direction"} |->
                   IF key = "link" THEN link ELSE IF key = "item" THEN item ELSE direction]
    IN  [key \in {k \in DOMAIN val : val[k] # None} |-> Unwrap(val[key])]
DataMaps == {DataMapOf(l, i, d) : l \in LinkValues, i \in ItemValues, d \in DirectionValues}

\* the tile definitions with the given entry under `direction_color`
TilesWith(color) ==
    [t \in {"tile"} |->
        [model |-> "tile_model",
         data |-> [key \in (IF color = None THEN {} ELSE {"direction_color"}) |-> Unwrap(color)]]]

\* snapshots and tile definitions the decorations are computed from
DecorInputs ==
    [all_data : UNION {[S -> DataMaps] : S \in SUBSET Coords},
     render_info : UNION {[S -> {"tile"}] : S \in SUBSET Coords},
     tiles : {TilesWith(color) : color \in DirectionColorValues}]

\* renderer.rs:280-345: the decorations of one render call, with the maps
\* iterated in some order
Decorate ==
    /\ fnOut = None
    /\ \E dataOrder \in Orders(DOMAIN fnIn.all_data), unitOrder \in Orders(DOMAIN fnIn.render_info) :
           fnOut' = Some(DataInstances(fnIn.all_data, dataOrder)
                         \o ArrowInstances(fnIn.all_data, fnIn.render_info, fnIn.tiles, unitOrder))
    /\ UNCHANGED << fnIn, fnOut2, programVars >>

DecorInit ==
    /\ RendererInit
    /\ fnIn \in DecorInputs
    /\ fnOut = None
    /\ fnOut2 = None

DecorSpec == DecorInit /\ [][Decorate]_vars

(* ---------------------- batching the GUI game elements ----------------- *)
\* the order of the model identifiers
KeyRank(m) == CHOOSE i \in DOMAIN ModelIds : ModelIds[i] = m

\* the sorted list with x put in before the elements of the same key
RECURSIVE InsertBeforeEqual(_, _)
InsertBeforeEqual(sorted, x) ==
    IF sorted = <<>> THEN << x >>
    ELSE IF KeyRank(Head(sorted).model) < KeyRank(x.model)
         THEN << Head(sorted) >> \o InsertBeforeEqual(Tail(sorted), x)
         ELSE << x >> \o sorted

\* mutant: the sort does not keep the order of elements of the same key
RECURSIVE SortByKeyUnstable(_)
SortByKeyUnstable(instances) ==
    IF instances = <<>> THEN <<>>
    ELSE InsertBeforeEqual(SortByKeyUnstable(SubSeq(instances, 1, Len(instances) - 1)),
                           instances[Len(instances)])

\* the sorted list with x put in behind the elements of keys up to its own
RECURSIVE InsertAfterEqual(_, _)
InsertAfterEqual(sorted, x) ==
    IF sorted = <<>> THEN << x >>
    ELSE IF KeyRank(Head(sorted).model) <= KeyRank(x.model)
         THEN << Head(sorted) >> \o InsertAfterEqual(Tail(sorted), x)
         ELSE << x >> \o sorted

\* gui/mod.rs:488, `instances.sort_by_key(|v| v.1)`: the slice sort of the
\* standard library, which is stable
RECURSIVE SortByKey(_)
SortByKey(instances) ==
    IF instances = <<>> THEN <<>>
    ELSE InsertAfterEqual(SortByKey(SubSeq(instances, 1, Len(instances) - 1)),
                          instances[Len(instances)])

\* gui/mod.rs:423-435, GameElement::new: the n-th element made in a frame
\* gets index n - 1 from INDEX_COUNTER, which is reset for every frame (:401)
GameElement(model, index) ==
    [kind |-> "gui", coord |-> CameraCoord, model |-> model, tint |-> FALSE, index |-> index]

\* the models of the game elements a frame's GUI shows, in the order they are made
GuiElementInputs == UNION {[1..n -> {"tile_model", "item_model", Cube1x1}] : n \in 0..MaxBatch}

\* the instances pushed by the prepare callbacks so far
Pushed == IF fnOut = None THEN <<>> ELSE Unwrap(fnOut)

\* gui/mod.rs:461-470, prepare of the next element's widget: it pushes
\* (instance, model, index)
GuiPrepare ==
    /\ fnOut2 = None
    /\ Len(Pushed) < Len(fnIn)
    /\ fnOut' = Some(Append(Pushed, GameElement(fnIn[Len(Pushed) + 1], Len(Pushed))))
    /\ UNCHANGED << fnIn, fnOut2, programVars >>

\* gui/mod.rs:485-491, finish_prepare: sort by model, then batch
FinishPrepare(instances) == IndirectInstance(SortByKey(instances))

GuiFinishPrepare ==
    /\ fnOut2 = None
    /\ Len(Pushed) = Len(fnIn)
    /\ fnOut2' = Some(FinishPrepare(Pushed))
    /\ UNCHANGED << fnIn, fnOut, programVars >>

GuiBatchInit ==
    /\ RendererInit
    /\ fnIn \in GuiElementInputs
    /\ fnOut = None
    /\ fnOut2 = None

GuiBatchNext ==
    \/ GuiPrepare
    \/ GuiFinishPrepare

GuiBatchSpec == GuiBatchInit /\ [][GuiBatchNext]_vars

(* -------------------- the tile instance list on its own ---------------- *)
\* a culling range around the camera with two tiles at the same distance and
\* one further out
RangeCoords == {<<0, 0>>, <<1, 0>>, <<-1, 0>>, <<2, 0>>}

\* snapshots over the range and screen extents the list is recomputed for
RecomputeInputs ==
    [render_info : UNION {[S -> {"tile", "none"}] : S \in SUBSET RangeCoords},
     screen : {<<0, 0>>, <<2, 0>>}]

\* the snapshot of fnIn with its fillers
Filled == WithFillers(fnIn.render_info, RangeCoords, WorldPos(CameraCoord), BoundOf(fnIn.screen))

\* renderer.rs:355-460, one recompute of the tile instance list: the map is
\* iterated in some order, sorted by distance and reversed
Recompute ==
    /\ fnOut = None
    /\ \E order \in SortedOrders(DOMAIN Filled) :
           fnOut' = Some(TileInstances(Filled, EmptyMap, {}, order))
    /\ UNCHANGED << fnIn, fnOut2, programVars >>

\* .. and a second recompute over the same snapshot, range and camera
RecomputeAgain ==
    /\ fnOut # None
    /\ fnOut2 = None
    /\ \E order \in SortedOrders(DOMAIN Filled) :
           fnOut2' = Some(TileInstances(Filled, EmptyMap, {}, order))
    /\ UNCHANGED << fnIn, fnOut, programVars >>

RecomputeInit ==
    /\ RendererInit
    /\ fnIn \in RecomputeInputs
    /\ fnOut = None
    /\ fnOut2 = None

RecomputeNext ==
    \/ Recompute
    \/ RecomputeAgain

RecomputeSpec == RecomputeInit /\ [][RecomputeNext]_vars

(* ------------------------------ GuiState -------------------------------- *)
\* gui/mod.rs:166-173, enum Screen
Screens == {"MainMenu", "MapLoad", "Options", "Ingame", "Paused"}
\* gui/mod.rs:175-179, enum SubState, with one of the options menus
SubStates == {"None", "Options(Graphics)"}
\* predicates handed to switch_screen_when
WhenPredicates == {"on_main_menu", "has_previous"}
\* the value of a predicate on a GuiState
Holds(when, g) == IF when = "on_main_menu" THEN g.screen = "MainMenu" ELSE g.previous # None

\* gui/mod.rs:140-145, GuiState::new
NewGuiState == [screen |-> "MainMenu", previous |-> None, substate |-> "None"]

\* mutant: the previous screen is restored and kept
ReturnScreenKeepsPrevious(g) ==
    [g EXCEPT !.screen = IF g.previous # None THEN Unwrap(g.previous) ELSE g.screen]

\* gui/mod.rs:200-205, return_screen
ReturnScreen(g) ==
    [g EXCEPT !.screen = IF g.previous # None THEN Unwrap(g.previous) ELSE g.screen,
              !.previous = None]

\* gui/mod.rs:207-210, switch_screen
SwitchScreen(g, new) == [g EXCEPT !.previous = Some(g.screen), !.screen = new]

\* gui/mod.rs:212-215, switch_screen_sub
SwitchScreenSub(g, new, sub) == [SwitchScreen(g, new) EXCEPT !.substate = sub]

\* gui/mod.rs:217-229, switch_screen_when: the state afterwards and the value returned
SwitchScreenWhen(g, when, new) ==
    IF Holds(when, g) THEN [state |-> SwitchScreen(g, new), ret |-> TRUE]
    ELSE [state |-> g, ret |-> FALSE]

\* a call on the GuiState: what was called with what, on which state, and
\* what it returned
GuiCall(op, new, sub, when, before, ret) ==
    [op |-> op, new |-> new, sub |-> sub, when |-> when, before |-> before, ret |-> ret]

\* the GUI calls return_screen: fnIn is the GuiState, fnOut the last call
\* and fnOut2 the call before it
CallReturnScreen ==
    /\ fnIn' = ReturnScreen(fnIn)
    /\ fnOut' = Some(GuiCall("return_screen", None, None, None, fnIn, None))
    /\ fnOut2' = fnOut
    /\ UNCHANGED programVars

CallSwitchScreen ==
    /\ \E new \in Screens :
        /\ fnIn' = SwitchScreen(fnIn, new)
        /\ fnOut' = Some(GuiCall("switch_screen", Some(new), None, None, fnIn, None))
    /\ fnOut2' = fnOut
    /\ UNCHANGED programVars

CallSwitchScreenSub ==
    /\ \E new \in Screens, sub \in SubStates :
        /\ fnIn' = SwitchScreenSub(fnIn, new, sub)
        /\ fnOut' = Some(GuiCall("switch_screen_sub", Some(new), Some(sub), None, fnIn, None))
    /\ fnOut2' = fnOut
    /\ UNCHANGED programVars

CallSwitchScreenWhen ==
    /\ \E new \in Screens, when \in WhenPredicates :
        /\ fnIn' = SwitchScreenWhen(fnIn, when, new).state
        /\ fnOut' = Some(GuiCall("switch_screen_when", Some(new), None, Some(when), fnIn,
                                 Some(SwitchScreenWhen(fnIn, when, new).ret)))
    /\ fnOut2' = fnOut
    /\ UNCHANGED programVars

GuiStateInit ==
    /\ RendererInit
    /\ fnIn = NewGuiState
    /\ fnOut = None
    /\ fnOut2 = None

GuiStateNext ==
    \/ CallReturnScreen
    \/ CallSwitchScreen
    \/ CallSwitchScreenSub
    \/ CallSwitchScreenWhen

GuiStateSpec == GuiStateInit /\ [][GuiStateNext]_vars

(* ------------------------ the batcher on its own ----------------------- *)
\* the instance lists the batcher is applied to
BatchModels == {"tile_model", "item_model", Cube1x1}
BatchInstances == {Instance("tile", c, m, FALSE) : c \in Coords, m \in BatchModels}
BatchInputs == UNION {[1..n -> BatchInstances] : n \in 0..MaxBatch}

\* renderer.rs:497-502 and :514-1020: batch a tile instance list, and record
\* the frame that draws it with no extra instances and no screenshot
BatchFrame(instances) ==
    LET batch == IndirectInstance(instances) IN
    [batch |-> batch, ops |-> InnerRenderOps(IndirectInstance(<<>>), Some(batch), FALSE)]

BatchFirst ==
    /\ fnOut = None
    /\ fnOut' = Some(BatchFrame(fnIn))
    /\ UNCHANGED << fnIn, fnOut2, programVars >>

BatchAgain ==
    /\ fnOut # None
    /\ fnOut2 = None
    /\ fnOut2' = Some(BatchFrame(fnIn))
    /\ UNCHANGED << fnIn, fnOut, programVars >>

BatchInit ==
    /\ RendererInit
    /\ fnIn \in BatchInputs
    /\ fnOut = None
    /\ fnOut2 = None

BatchNext ==
    \/ BatchFirst
    \/ BatchAgain

BatchSpec == BatchInit /\ [][BatchNext]_vars

\* Render thread and fetch tasks with the clock running and the GUI queueing
\* tints and extra instances between frames; the simulation state is fixed.
FrameNext ==
    \/ RenderStep
    \/ FetchStep
    \/ GuiTint
    \/ GuiQueueExtra
    \/ AdvanceTime

FrameSpec == Init /\ [][FrameNext]_vars

\* Render thread and fetch tasks with frames paced over several update
\* intervals: the clock runs on, every call to the simulation is answered,
\* the simulation state is fixed and the GUI queues nothing.
PacedNext ==
    \/ RenderStep
    \/ FetchProgress
    \/ ClockTick

PacedSpec == Init /\ [][PacedNext]_vars

(* ------------------------------ claims --------------------------------- *)
\* views of the log of GPU operations of the running call
HasOp(log, op) == \E i \in DOMAIN log : log[i].op = op
IsPass(o) == o.op = "begin_render_pass"
PassLabels(log) == LET passes == SelectSeq(log, IsPass) IN [i \in DOMAIN passes |-> passes[i].what]
NothingDrawn(log) == ~HasOp(log, "begin_render_pass") /\ ~HasOp(log, "submit") /\ ~HasOp(log, "present")

\* C1: for each of the two caches, at most one fetch task is in flight at any
\* time, however many render calls reach the refresh trigger meanwhile.
C1_AtMostOneFetchInFlight == Len(tileTasks) <= 1 /\ Len(txTasks) <= 1

\* a second render call is past its tile refresh trigger while the first
\* fetch still awaits its first reply, and no second fetch was spawned
C1_Witness ==
    /\ tileTriggers = 2
    /\ renderPc = "tile_lock"
    /\ tileSpawned = 1
    /\ Len(tileTasks) = 1
    /\ tileTasks[1].pc = "call_data"

\* C2: the render thread waits only to acquire the two cache locks, and a
\* lock that a fetch task holds is released by that task's next step, the
\* store, which needs no reply from the simulation: a task that awaits the
\* simulation holds no lock, and at every position of a render call either
\* the render thread can step or the lock holder can.
C2_RenderNeverWaitsForFetch ==
    /\ render_info_lock = "fetch" =>
          /\ \E i \in DOMAIN tileTasks : tileTasks[i].pc = "store"
          /\ ENABLED TileFetchStore
    /\ transaction_records_lock = "fetch" =>
          /\ \E i \in DOMAIN txTasks : txTasks[i].pc = "store"
          /\ ENABLED TxFetchStore
    /\ renderPc = "tile_lock" => (ENABLED RenderTileLock \/ ENABLED TileFetchStore)
    /\ renderPc = "tx_lock" => (ENABLED RenderTxLock \/ ENABLED TxFetchStore)
    /\ renderPc \in {"tile_trigger", "tx_trigger", "tx_read", "compute", "inner", "returned"} =>
          ENABLED RenderStep

\* a render call drew and presented a frame from the cached snapshot while a
\* later fetch was still waiting for the simulation's first reply
C2_Witness ==
    /\ renderPc = "returned"
    /\ result = "Ok"
    /\ HasOp(gpuLog, "present")
    /\ Len(tileTasks) = 1
    /\ tileTasks[1].pc = "call_data"
    /\ render_info_lock = "free"

\* C3: when a fetch fails because the simulation actor is unreachable, the
\* cached snapshot is retained and the cache's updating flag is cleared, so
\* that a later render call issues a new fetch.
C3_FailedFetchClearsFlag ==
    [][/\ TileFetchCallFails => (render_info_cache' = render_info_cache /\ ~render_info_updating')
       /\ TxFetchCallFails => (transaction_records_cache' = transaction_records_cache
                                /\ ~transaction_records_updating')]_vars

\* C4: the (render units, tile data) pair of a cached tile snapshot reflects
\* one single simulation state.
C4_SnapshotPairFromOneState ==
    render_info_cache # None =>
        Unwrap(render_info_cache).instances.ver = Unwrap(render_info_cache).all_data.ver

\* C5: a render call that reads an absent tile snapshot returns Ok(()) with
\* nothing drawn: no surface acquired, no pass, no submission, no present,
\* and the cache lock released.
C5_AbsentSnapshotSkipsFrame ==
    [][(renderPc = "tile_lock" /\ renderPc' # "tile_lock" /\ render_info_cache = None) =>
          /\ renderPc' = "returned"
          /\ result' = "Ok"
          /\ gpuLog' = <<>>
          /\ output' = None
          /\ render_info_lock' = "free"]_vars

\* a call with a drawable window returned Ok from the absent snapshot
C5_Witness ==
    /\ renderPc = "returned"
    /\ ~(size[1] = 0 \/ size[2] = 0)
    /\ render_info_cache = None
    /\ result = "Ok"
    /\ gpuLog = <<>>

\* C6: a render call that found the window width or height 0 has returned
\* Ok(()) and issued no GPU operation at all.
C6_ZeroSizeNoGpuWork ==
    (renderPc # "idle" /\ (size[1] = 0 \/ size[2] = 0)) =>
        /\ renderPc = "returned"
        /\ result = "Ok"
        /\ gpuLog = <<>>
        /\ output = None

\* a call returned from a window of width 0 and nonzero height, while a
\* snapshot was cached that a drawable window would have drawn
C6_Witness ==
    /\ renderPc = "returned"
    /\ size = <<0, 1>>
    /\ render_info_cache # None
    /\ result = "Ok"
    /\ gpuLog = <<>>

\* C7: when the acquisition of the surface texture fails, the call returns
\* that very error, records no pass, submits and presents nothing, holds no
\* cache lock and leaves every field of the renderer as it was, so the next
\* call starts from the state this one started from.
C7_SurfaceErrorPropagated ==
    [][(renderPc = "inner" /\ renderPc' # "inner" /\ gpuLog' # <<>>
          /\ gpuLog'[1].what \in SurfaceErrors) =>
          /\ renderPc' = "returned"
          /\ result' = gpuLog'[1].what
          /\ Len(gpuLog') = 1
          /\ NothingDrawn(gpuLog')
          /\ render_info_lock' # "render" /\ transaction_records_lock' # "render"
          /\ UNCHANGED << tile_tints, extra_instances, last_update, last_game_data >>
          /\ UNCHANGED << render_info_cache, transaction_records_cache >>]_vars

\* a call returned a lost surface to its caller after an earlier call had
\* drawn a batch of tiles
C7_Witness ==
    /\ renderPc = "returned"
    /\ result = "Lost"
    /\ gpuLog = << Op("get_current_texture", "Lost", NoTargets) >>
    /\ last_game_data # None

\* C8: when the acquired texture differs from the window's inner size in
\* width or in height, the call returns Ok(()) and records no pass, submits
\* nothing and presents nothing.
C8_SizeMismatchSkipsFrame ==
    (/\ renderPc = "returned"
     /\ output # None
     /\ Unwrap(output).window # None
     /\ \/ Unwrap(output).texture[1] # Unwrap(output).window[1]
        \/ Unwrap(output).texture[2] # Unwrap(output).window[2]) =>
        /\ result = "Ok"
        /\ NothingDrawn(gpuLog)

\* a texture was acquired whose height alone differs from the window's
C8_Witness ==
    /\ renderPc = "returned"
    /\ output # None
    /\ Unwrap(output).window # None
    /\ Unwrap(output).texture[1] = Unwrap(output).window[1]
    /\ Unwrap(output).texture[2] # Unwrap(output).window[2]
    /\ result = "Ok"
    /\ Len(gpuLog) = 1

\* C9: a tile id or held-item id of the cached snapshot that has no entry in
\* the resource tables never makes a render call fail fatally.
C9_UnknownIdNeverFatal == result # "Panic"

\* the passes of a frame in the order the claim gives them: `tiles` tells
\* whether a batch of tiles exists, `shot` whether a screenshot was requested
ExpectedPasses(tiles, shot) ==
    << "Extra Objects Render Pass" >>
    \o (IF tiles THEN << "Game Render Pass" >> ELSE <<>>)
    \o << "Game Post Processing Render Pass", "Game Antialiasing Render Pass",
          "yakui Render Pass", "Combine Render Pass", "Present Pass" >>
    \o (IF shot THEN << "Screenshot Intermediate Pass" >> ELSE <<>>)
FourTargets == {"game", "normal", "model", "depth"}

\* C10: in every frame that reaches submission the passes are recorded in
\* the order extra objects, main tiles (when a batch exists), post
\* processing, antialiasing, GUI, combine, present, screenshot intermediate
\* (when requested), all of them before the submission; the extra-objects
\* pass clears the game, normal, model and depth targets and the main tile
\* pass loads them.
C10_PassOrder ==
    (renderPc = "returned" /\ HasOp(gpuLog, "submit")) =>
        /\ PassLabels(gpuLog) = ExpectedPasses(last_game_data # None, screenshotting)
        /\ \A i, j \in DOMAIN gpuLog :
               (IsPass(gpuLog[i]) /\ gpuLog[j].op = "submit") => i < j
        /\ \A i \in DOMAIN gpuLog :
               /\ (IsPass(gpuLog[i]) /\ gpuLog[i].what = "Extra Objects Render Pass") =>
                      gpuLog[i].targets = [t \in FourTargets |-> "Clear"]
               /\ (IsPass(gpuLog[i]) /\ gpuLog[i].what = "Game Render Pass") =>
                      gpuLog[i].targets = [t \in FourTargets |-> "Load"]

\* a frame with a tile batch and a screenshot recorded all eight passes
C10_Witness ==
    /\ renderPc = "returned"
    /\ HasOp(gpuLog, "submit")
    /\ screenshotting
    /\ game_instances # None
    /\ Len(PassLabels(gpuLog)) = 8

\* the tile batch the frame of the returned call drew
DrawnBatch == Unwrap(last_game_data).instances
TileFrameDrawn == renderPc = "returned" /\ HasOp(gpuLog, "submit") /\ last_game_data # None

\* C11: a coordinate in the tile_tints map taken by a render call is tinted
\* in the tile batch that call draws, and a coordinate that was not in the
\* map taken by the call is not tinted in it: a tint shows for exactly the
\* frame it was queued for.
C11_TintExactlyOneFrame ==
    TileFrameDrawn =>
        \A i \in DOMAIN DrawnBatch :
            DrawnBatch[i].tint <=> (DrawnBatch[i].coord \in local_tints)

\* the batch of the first application of the batcher to fnIn
Batched == Unwrap(fnOut).batch
\* the slice of the instance buffer a descriptor covers
Slice(d) == (d.first_instance + 1)..(d.first_instance + d.instance_count)
Occurrences(q, x) == Cardinality({i \in DOMAIN q : q[i] = x})

\* C12: the packed buffer holds the instances of the input, each as often
\* as the input does; the descriptors cover the buffer from its start to
\* its end without gap or overlap; every descriptor covers at least one
\* instance and only instances of its model; and no two descriptors name the
\* same model, so each covers a maximal run of the sorted list.
C12_OneDescriptorPerRun ==
    fnOut # None =>
        LET buf == Batched.instances
            draws == Batched.draws
        IN  /\ Len(buf) = Len(fnIn)
            /\ \A x \in BatchInstances : Occurrences(buf, x) = Occurrences(fnIn, x)
            /\ Batched.count = Len(draws)
            /\ \A k \in DOMAIN draws :
                  /\ draws[k].instance_count >= 1
                  /\ draws[k].first_instance =
                        (IF k = 1 THEN 0
                         ELSE draws[k - 1].first_instance + draws[k - 1].instance_count)
                  /\ \A i \in Slice(draws[k]) : i \in DOMAIN buf /\ buf[i].model = draws[k].model
            /\ draws # <<>> =>
                  draws[Len(draws)].first_instance + draws[Len(draws)].instance_count = Len(buf)
            /\ draws = <<>> => buf = <<>>
            /\ \A j, k \in DOMAIN draws : j # k => draws[j].model # draws[k].model

\* the instances at (0,0) and (1,0), both of one model, were batched into
\* one descriptor of instance count 2 over a buffer of length 2
C12_Witness ==
    /\ fnIn = << Instance("tile", <<0, 0>>, "tile_model", FALSE),
                 Instance("tile", <<1, 0>>, "tile_model", FALSE) >>
    /\ fnOut # None
    /\ Batched.draws = << [model |-> "tile_model", first_instance |-> 0, instance_count |-> 2] >>
    /\ Len(Batched.instances) = 2

C15_SamplingPeriodic ==
    (fnOut # None /\ fnOut2 # None) => Unwrap(fnOut2) = Unwrap(fnOut)

\* the transaction instances among the extra instances of the running call
TransactionsDrawn == SelectSeq(local_extras, LAMBDA x : x.kind = "transaction")
\* the cached records in range, which are the ones that are drawn
RecordsInRange ==
    SelectSeq(transaction_records_cache.records,
              LAMBDA rec : rec.source \in CullingRange /\ rec.coord \in CullingRange)

\* C16: when a render call reads the transaction cache at time now, the
\* instance it produces for every cached record lies at source +
\* (destination - source) * (now - T) / TRANSACTION_ANIMATION_SPEED (written
\* here multiplied by the speed), and half a speed after T it lies midway
\* between the two world positions.
C16_TransactionLerp ==
    [][(renderPc = "tx_read" /\ renderPc' = "compute") =>
        /\ Len(TransactionsDrawn') = Len(RecordsInRange)
        /\ \A i \in DOMAIN RecordsInRange :
              LET rec == RecordsInRange[i]
                  point == TransactionsDrawn'[i].coord
                  from == WorldPos(rec.source)
                  to == WorldPos(rec.coord)
              IN  \A k \in 1..2 :
                    /\ point[k] = from[k] * TRANSACTION_ANIMATION_SPEED
                                    + (to[k] - from[k]) * (now - rec.instant)
                    /\ 2 * (now - rec.instant) = TRANSACTION_ANIMATION_SPEED =>
                          2 * point[k] = (from[k] + to[k]) * TRANSACTION_ANIMATION_SPEED]_vars

\* a record from (0,0) to (1,0) has just been drawn half a speed after it
\* started
C16_Witness ==
    /\ renderPc = "compute"
    /\ transaction_records_lock = "free"
    /\ Len(TransactionsDrawn) = 1
    /\ RecordsInRange[1].source = <<0, 0>>
    /\ RecordsInRange[1].coord = <<1, 0>>
    /\ 2 * (now - RecordsInRange[1].instant) = TRANSACTION_ANIMATION_SPEED
    /\ TransactionsDrawn[1].coord = << TRANSACTION_ANIMATION_SPEED, 0 >>

\* C17: the pixel buffer read back from a screenshot of a width x height
\* surface has exactly width * height * 4 bytes; its rows are the first
\* width * 4 bytes of the padded rows, so byte ch of pixel (row, col) is the
\* texture's for ch < 3, and the 4th byte of every pixel is 255; the padded
\* row length is the smallest multiple of 256 that is >= width * 4.
C17_ScreenshotBytes ==
    fnOut # None =>
        LET w == fnIn.width
            h == fnIn.height
            bytes == Unwrap(fnOut)
        IN  /\ Len(bytes) = w * h * 4
            /\ \A row \in 0..(h - 1), col \in 0..(w - 1) :
                  /\ \A ch \in 0..2 : bytes[(row * w + col) * 4 + ch + 1] = TexelByte(row, col, ch)
                  /\ bytes[(row * w + col) * 4 + 4] = 255
            /\ PaddedWidth(w) % 256 = 0
            /\ PaddedWidth(w) >= w * 4
            /\ PaddedWidth(w) - 256 < w * 4

\* a screenshot of 65 x 2 pixels, whose rows are padded from 260 to 512
\* bytes, was read back
C17_Witness ==
    /\ fnOut # None
    /\ fnIn.width = 65
    /\ fnIn.height = 2
    /\ fnIn.pad = 170
    /\ PaddedWidth(fnIn.width) = 512
    /\ Len(Unwrap(fnOut)) = 520

\* C18: with a simulation actor that answers and fair scheduling, every
\* started fetch lands: whenever a cache's updating flag is set, later the
\* flag is clear again with no task left and the cache holding a fetched
\* result, however many render calls run meanwhile.
C18_FetchLands ==
    /\ render_info_updating ~>
          (~render_info_updating /\ tileTasks = <<>> /\ render_info_cache # None)
    /\ transaction_records_updating ~>
          (~transaction_records_updating /\ txTasks = <<>>
             /\ transaction_records_cache # NoTransactions)

\* the first tile fetch has landed while a third render call is under way
C18_Witness ==
    /\ tileSpawned = 1
    /\ tileTriggers = 3
    /\ ~render_info_updating
    /\ tileTasks = <<>>
    /\ render_info_cache # None

\* the running call has returned from the absent-snapshot check: its window
\* is not empty and it never reached inner_render
SkippedForAbsentSnapshot ==
    renderPc = "returned" /\ size[1] # 0 /\ size[2] # 0 /\ output = None

\* C19 as stated: a call with a non-empty window has triggered the refresh
\* of both caches before the absent-snapshot check, so when it returns from
\* that check a tile fetch and a transaction-record fetch have been started.
C19_BothTriggeredBeforeCheck ==
    SkippedForAbsentSnapshot => (tileSpawned >= 1 /\ txSpawned >= 1)

\* C19, amended: a call with a non-empty window triggers the tile refresh
\* before the absent-snapshot check (a tile fetch is started if the flag is
\* idle, and the flag is set afterwards); if the snapshot is absent the call
\* returns without touching the transaction-record flag or starting a
\* transaction-record fetch; if it is present the call goes on to trigger the
\* transaction-record refresh in the same way.
C19_TileBeforeCheckTxAfter ==
    [][/\ (renderPc = "idle" /\ renderPc' # renderPc /\ size'[1] # 0 /\ size'[2] # 0) =>
              renderPc' = "tile_trigger"
       /\ (renderPc = "tile_trigger" /\ renderPc' # renderPc) =>
              /\ renderPc' = "tile_lock"
              /\ render_info_updating'
              /\ ~render_info_updating =>
                    (tileSpawned' = tileSpawned + 1 /\ Len(tileTasks') = Len(tileTasks) + 1)
              /\ render_info_updating => UNCHANGED << tileSpawned, tileTasks >>
       /\ (renderPc = "tile_lock" /\ renderPc' # renderPc /\ render_info_cache = None) =>
              /\ renderPc' = "returned"
              /\ UNCHANGED << transaction_records_updating, txSpawned, txTasks >>
       /\ (renderPc = "tile_lock" /\ renderPc' # renderPc /\ render_info_cache # None) =>
              renderPc' = "tx_trigger"
       /\ (renderPc = "tx_trigger" /\ renderPc' # renderPc) =>
              /\ renderPc' = "tx_lock"
              /\ transaction_records_updating'
              /\ ~transaction_records_updating =>
                    (txSpawned' = txSpawned + 1 /\ Len(txTasks') = Len(txTasks) + 1)
              /\ transaction_records_updating => UNCHANGED << txSpawned, txTasks >>]_vars

\* a call returned from the absent-snapshot check having started a tile
\* fetch and no transaction-record fetch
C19_Witness ==
    /\ SkippedForAbsentSnapshot
    /\ tileSpawned = 1
    /\ txSpawned = 0
    /\ ~transaction_records_updating

\* C20: a cache's updating flag is cleared only by a fetch task whose result
\* the cache already holds, and the clearing step leaves the cache alone; so
\* whenever a flag is idle after a fetch was started, the cache holds a
\* fetched result.
C20_FlagClearedAfterStore ==
    [][/\ (render_info_updating /\ ~render_info_updating') =>
              /\ \E i \in DOMAIN tileTasks :
                    /\ tileTasks[i].instances # None /\ tileTasks[i].all_data # None
                    /\ render_info_cache = Some([instances |-> Unwrap(tileTasks[i].instances),
                                                 all_data |-> Unwrap(tileTasks[i].all_data)])
              /\ render_info_lock # "fetch"
              /\ UNCHANGED render_info_cache
       /\ (transaction_records_updating /\ ~transaction_records_updating') =>
              /\ \E i \in DOMAIN txTasks :
                    /\ txTasks[i].result # None
                    /\ transaction_records_cache = Unwrap(txTasks[i].result)
              /\ transaction_records_lock # "fetch"
              /\ UNCHANGED transaction_records_cache
       /\ (tileSpawned >= 1 /\ ~render_info_updating) => render_info_cache # None
       /\ (txSpawned >= 1 /\ ~transaction_records_updating) =>
              transaction_records_cache # NoTransactions]_vars

\* a render call observes the idle flag of a landed fetch and is about to
\* start the next one
C20_Witness ==
    /\ renderPc = "tile_trigger"
    /\ tileSpawned = 1
    /\ ~render_info_updating
    /\ tileTasks = <<>>
    /\ render_info_cache # None

\* the running call recomputed the tile instance list and has returned
RecomputedAndReturned == renderPc = "returned" /\ game_instances # None

\* C21: a render call that recomputed the tile instance list leaves in
\* last_game_data the batch built from that list, whatever the way it ended:
\* drawn, surface acquisition error, or surface-size mismatch.
C21_RecomputedBatchCarried ==
    RecomputedAndReturned =>
        last_game_data = Some(IndirectInstance(Unwrap(game_instances)))

\* the step of a render call that passes the rate-limit check
RateLimitCheck == renderPc = "compute" /\ renderPc' = "inner"

\* C22: last_update changes only at the rate-limit check; a call that
\* recomputes the tile instance list finds a last_update at least
\* UPDATE_INTERVAL old and sets it to the time of the recompute, and a call
\* that does not recompute leaves a set last_update alone, so last_update is
\* the time of the previous recompute (or of the first check) and two
\* recomputes are at least UPDATE_INTERVAL apart; the first call to reach
\* the check sets last_update and does not recompute.
C22_RecomputeRateLimited ==
    [][/\ last_update' # last_update => RateLimitCheck
       /\ (RateLimitCheck /\ game_instances' # None) =>
              /\ last_update # None
              /\ now - Unwrap(last_update) >= UPDATE_INTERVAL
              /\ last_update' = Some(now)
       /\ (RateLimitCheck /\ game_instances' = None /\ last_update # None) =>
              /\ last_update' = last_update
              /\ now - Unwrap(last_update) < UPDATE_INTERVAL
       /\ (RateLimitCheck /\ last_update = None) =>
              (game_instances' = None /\ last_update' = Some(now))]_vars

\* a second recompute, one update interval after the first, whose batch is
\* still the carried-over one
C22_Witness ==
    /\ renderPc = "inner"
    /\ game_instances # None
    /\ last_game_data # None
    /\ now = 2 * UPDATE_INTERVAL
    /\ last_update = Some(now)

\* the step that runs inner_render to its return
InnerRenderStep == renderPc = "inner" /\ renderPc' = "returned"
\* the operations of a log on the main tile resources
GameResources ==
    {"game", "game.instance_buffer", "game.indirect_buffer", "game.uniform_buffer",
     "game.matrix_data_buffer"}
GameOps(log) == SelectSeq(log, LAMBDA o : o.what \in GameResources)

\* C23: a call that did not recompute and found a carried-over batch leaves
\* last_game_data as it found it, whatever the way it ended; and if it drew,
\* it recorded the main tile pass from that very batch: its buffers written
\* and one indirect draw issued when the batch has a descriptor.
C23_CarryOverUnmodified ==
    [][(InnerRenderStep /\ game_instances = None /\ last_game_data # None) =>
          /\ last_game_data' = last_game_data
          /\ HasOp(gpuLog', "submit") =>
                /\ \E i \in DOMAIN gpuLog' : IsPass(gpuLog'[i]) /\ gpuLog'[i].what = "Game Render Pass"
                /\ GameOps(gpuLog') = GameOps(GamePass(last_game_data))]_vars

\* a rate-limited call drew the batch that an earlier call had recomputed
C23_Witness ==
    /\ renderPc = "returned"
    /\ game_instances = None
    /\ last_game_data # None
    /\ HasOp(gpuLog, "submit")
    /\ Len(GameOps(gpuLog)) = 5

\* the results of the name lookups of fnIn
Names == Unwrap(fnOut)

\* C24: try_script_name of an id is script_name of the id, try_script_name
\* of no id is the "none" string, and the same holds of the item, tile and
\* category lookups.
C24_TryScriptNameIsScriptName ==
    fnOut # None =>
        /\ fnIn.id # None =>
              /\ Names.try_script = Unwrap(Names.script)
              /\ Names.try_item = Unwrap(Names.item)
              /\ Names.try_tile = Unwrap(Names.tile)
              /\ Names.try_category = Unwrap(Names.category)
        /\ fnIn.id = None =>
              /\ Names.try_script = fnIn.translates.none
              /\ Names.try_item = fnIn.translates.none
              /\ Names.try_tile = fnIn.translates.none
              /\ Names.try_category = fnIn.translates.none

HasPass(log, label) == \E i \in DOMAIN log : IsPass(log[i]) /\ log[i].what = label

\* C25: a frame that is drawn records the main tile pass if and only if the
\* call recomputed a batch or found a carried-over one; with neither, the
\* other passes are all recorded in their order, the frame is submitted and
\* presented, and the call returns Ok(()).
C25_TilePassIffBatchExists ==
    [][(InnerRenderStep /\ HasOp(gpuLog', "submit")) =>
          /\ HasPass(gpuLog', "Game Render Pass") <=>
                (game_instances # None \/ last_game_data # None)
          /\ (game_instances = None /\ last_game_data = None) =>
                /\ PassLabels(gpuLog') = ExpectedPasses(FALSE, screenshotting)
                /\ HasOp(gpuLog', "present")
                /\ result' = "Ok"
                /\ last_game_data' = None]_vars

\* the first frame that reached the rate-limit check was drawn without the
\* main tile pass
C25_Witness ==
    /\ renderPc = "returned"
    /\ HasOp(gpuLog, "present")
    /\ result = "Ok"
    /\ game_instances = None
    /\ last_game_data = None
    /\ ~HasPass(gpuLog, "Game Render Pass")
    /\ HasPass(gpuLog, "Extra Objects Render Pass")
    /\ last_update = Some(now)

\* C26: from the first step of a render call to its return the tile_tints
\* map is empty, whatever path the call takes: the call took what the map
\* held and nothing refills it before the call has returned.
C26_TintsDrainedEveryCall == renderPc # "idle" => tile_tints = {}

\* a call that found the window empty returned, having taken a tint of (0,0)
\* that it never applied
C26_Witness ==
    /\ renderPc = "returned"
    /\ size[1] = 0
    /\ local_tints = {<<0, 0>>}
    /\ tile_tints = {}
    /\ gpuLog = <<>>

\* the age of a cached record when the running call reads the cache
Age(rec) == now - rec.instant

\* C27: when a render call reads the transaction cache, it produces an
\* instance for exactly the cached records in range whose age is at most
\* TRANSACTION_ANIMATION_SPEED, so every instance it draws lies between the
\* source and the destination of its record (interpolation parameter in
\* [0, 1]), also when the cached snapshot is older than the fetch in flight.
C27_ExpiredRecordNotDrawn ==
    [][(renderPc = "tx_read" /\ renderPc' = "compute") =>
          /\ Len(TransactionsDrawn') =
                Len(SelectSeq(RecordsInRange, LAMBDA rec : Age(rec) <= TRANSACTION_ANIMATION_SPEED))
          /\ \A i \in DOMAIN RecordsInRange :
                i \in DOMAIN TransactionsDrawn' =>
                    /\ 0 <= Age(RecordsInRange[i])
                    /\ Age(RecordsInRange[i]) <= TRANSACTION_ANIMATION_SPEED]_vars

\* the time a track is sampled at: the f32 elapsed seconds modulo the last
\* keyframe time (a track posed by one keyframe at time 0 is sampled at 0)
WrappedTime(anim, t) == IF Last(anim.inputs) = 0 THEN 0 ELSE AsSecsF32(t) % Last(anim.inputs)
\* the keyframes of a track that are the first with a time >= w
FirstAtOrAfter(inputs, w) ==
    {k \in DOMAIN inputs : inputs[k] >= w /\ \A j \in 1..(k - 1) : inputs[j] < w}
\* the transform of the first keyframe of the track at or after its wrapped time
SteppedSample(anim, t) ==
    anim.outputs[CHOOSE k \in FirstAtOrAfter(anim.inputs, WrappedTime(anim, t)) : TRUE]
\* the tracks of the sampled model, and what the first sample recorded for it
SampledAnims == AllModelAnims[fnIn.model]
SampledParts == Unwrap(fnOut)[fnIn.model]

\* C28: the sample of a model holds, for every part that some track of the
\* model targets, the product in track order of the stepped samples of all
\* the tracks that target the part, whether or not these tracks are adjacent
\* in the model's track list.
C28_PartIsProductOfItsTracks ==
    fnOut # None =>
        /\ DOMAIN SampledParts = {SampledAnims[i].target : i \in DOMAIN SampledAnims}
        /\ \A part \in DOMAIN SampledParts :
              LET mine == SelectSeq(SampledAnims, LAMBDA anim : anim.target = part)
              IN  SampledParts[part] = [i \in DOMAIN mine |-> SteppedSample(mine[i], fnIn.t)]

\* C29: every transform that the sample of a model holds is the transform
\* of a keyframe of its track, namely of the first keyframe whose time is >=
\* the wrapped time, taken as it is; such a keyframe exists for every track
\* and every elapsed time, so the selected index is never past the last
\* keyframe.
C29_SteppedSampleValidIndex ==
    fnOut # None =>
        /\ \A i \in DOMAIN SampledAnims :
              FirstAtOrAfter(SampledAnims[i].inputs, WrappedTime(SampledAnims[i], fnIn.t)) # {}
        /\ \A part \in DOMAIN SampledParts :
              \E start \in DOMAIN SampledAnims :
                  \A k \in DOMAIN SampledParts[part] :
                      /\ start + k - 1 \in DOMAIN SampledAnims
                      /\ SampledParts[part][k] # "IndexOutOfBounds"
                      /\ SampledParts[part][k] = SteppedSample(SampledAnims[start + k - 1], fnIn.t)

\* tracks with keyframes at 0, 1, 3, at 0, 2, 3 and at 1, 3 seconds were
\* sampled 4 s after start: wrapped to 1 s, which is a keyframe time of the
\* first track, lies between two keyframes of the second and is the first
\* keyframe of the third
C29_Witness ==
    /\ fnOut # None
    /\ fnIn.model = "tile_model"
    /\ fnIn.t = 4
    /\ SampledParts[1] = << "a1", "b2" >>
    /\ SampledParts[2] = << "c1" >>

\* what the first and the later call of try_add_animation for fnIn.model did
First == Unwrap(fnOut)
Later == Unwrap(fnOut2)
HasNoAnimation(model) == model \notin DOMAIN AllModelAnims \/ AllModelAnims[model] = <<>>

\* C30 as stated: the first call for a model without animation records the
\* model in the frame's animation map, and a later call in the frame makes
\* no lookup in the resource tables.
C30_NoAnimationRecorded ==
    (fnOut # None /\ HasNoAnimation(fnIn.model)) =>
        /\ fnIn.model \in DOMAIN First.map
        /\ fnOut2 # None => Later.lookups = 0

\* C30, amended: a model registered without animation tracks is recorded by
\* the first call with no part transforms, and a later call finds the record,
\* makes no lookup and returns true like the first; for a model that the
\* resource tables do not hold, the first call returns false and records
\* nothing, and a later call makes the lookup again, returns false again and
\* leaves the map as it is.
C30_OnlyRegisteredModelsRecorded ==
    /\ (fnOut # None /\ fnIn.model \in DOMAIN AllModelAnims) =>
          /\ First.found /\ First.lookups = 1
          /\ fnIn.model \in DOMAIN First.map
          /\ AllModelAnims[fnIn.model] = <<>> => First.map[fnIn.model] = EmptyMap
          /\ fnOut2 # None => (Later.found /\ Later.lookups = 0 /\ Later.map = First.map)
    /\ (fnOut # None /\ fnIn.model \notin DOMAIN AllModelAnims) =>
          /\ ~First.found /\ First.lookups = 1
          /\ First.map = EmptyMap
          /\ fnOut2 # None => (~Later.found /\ Later.lookups = 1 /\ Later.map = EmptyMap)

\* try_add_animation was called twice for a model that the resource tables
\* do not hold: both calls looked it up and the map is still empty
C30_Witness ==
    /\ fnOut2 # None
    /\ fnIn.model = UnregisteredModel
    /\ Later.lookups = 1
    /\ ~Later.found
    /\ Later.map = EmptyMap

\* C31: the animation map of a frame starts empty, so after the first call
\* for a model it holds at most that model; a later call in the frame for a
\* model that the map holds returns true, makes no lookup and evaluates no
\* keyframe: it leaves the map exactly as the first call left it, although
\* the elapsed time has moved on.
C31_SampledOncePerFrame ==
    /\ fnOut # None => DOMAIN First.map \subseteq {fnIn.model}
    /\ (fnOut2 # None /\ fnIn.model \in DOMAIN First.map) =>
          /\ Later.found
          /\ Later.lookups = 0
          /\ Later.map = First.map

\* the model with keyframes at 0, 1, 3 s was sampled at 0 s and asked for
\* again at 1 s, where its tracks have moved to their next keyframes: the
\* map still holds the transforms of 0 s
C31_Witness ==
    /\ fnOut2 # None
    /\ fnIn.model = "tile_model"
    /\ fnIn.t = 0
    /\ Later.map["tile_model"][1] = << "a0", "b0" >>
    /\ Later.lookups = 0

\* C32: the render thread holds the transaction cache lock only while it
\* holds the tile cache lock, and holds each only between taking and
\* releasing it; a fetch task holds only the lock of its own cache, only at
\* its store step with its replies in hand, and can take that step at once;
\* and whenever a render call is under way or a fetch task is left, some
\* thread can take a step: no state is a deadlock.
C32_NoDeadlock ==
    /\ transaction_records_lock = "render" => render_info_lock = "render"
    /\ render_info_lock = "render" <=> renderPc \in {"tx_trigger", "tx_lock", "tx_read", "compute"}
    /\ transaction_records_lock = "render" <=> renderPc = "tx_read"
    /\ render_info_lock = "fetch" =>
          /\ \E i \in DOMAIN tileTasks :
                /\ tileTasks[i].pc = "store"
                /\ tileTasks[i].all_data # None /\ tileTasks[i].instances # None
          /\ ENABLED TileFetchStore
    /\ transaction_records_lock = "fetch" =>
          /\ \E i \in DOMAIN txTasks : txTasks[i].pc = "store" /\ txTasks[i].result # None
          /\ ENABLED TxFetchStore
    /\ renderPc \notin {"idle", "panicked"} =>
          (ENABLED RenderStep \/ ENABLED TileFetchStore \/ ENABLED TxFetchStore)
    /\ (tileTasks # <<>> \/ txTasks # <<>>) => (ENABLED FetchStep \/ ENABLED RenderStep)

\* the render thread holds the tile cache lock and waits for the transaction
\* cache lock, which the transaction fetch holds, while the tile fetch waits
\* for the tile cache lock
C32_Witness ==
    /\ renderPc = "tx_lock"
    /\ render_info_lock = "render"
    /\ transaction_records_lock = "fetch"
    /\ Len(tileTasks) = 1
    /\ tileTasks[1].pc = "lock"
    /\ ~ENABLED RenderStep
    /\ ENABLED TxFetchStore

\* the (render units, tile data) pair that fetch task i holds
FetchedPair(i) ==
    [instances |-> Unwrap(tileTasks[i].instances), all_data |-> Unwrap(tileTasks[i].all_data)]

\* C33: the tile snapshot cache starts absent; a present snapshot never
\* becomes absent; every change of the cache stores the whole pair of replies
\* that one fetch task holds; and the cache does not change while the render
\* thread holds its lock, so a render call reads the pair of one fetch.
C33_CacheMonotone ==
    /\ render_info_cache = None
    /\ [][/\ render_info_cache # None => render_info_cache' # None
          /\ render_info_cache' # render_info_cache =>
                \E i \in DOMAIN tileTasks :
                    /\ tileTasks[i].pc = "store"
                    /\ tileTasks[i].instances # None /\ tileTasks[i].all_data # None
                    /\ render_info_cache' = Some(FetchedPair(i))
          /\ render_info_lock = "render" => render_info_cache' = render_info_cache]_vars

\* the second fetch has stored its pair, which differs in both parts from the
\* first one's, and the render thread reads it under the lock
C33_Witness ==
    /\ tileSpawned = 2
    /\ render_info_lock = "render"
    /\ render_info_cache = Some([instances |-> RenderUnitsOf(1), all_data |-> AllDataOf(1)])
    /\ renderPc = "compute"

\* the instances of a call's extra list that the GUI queued
GuiQueued(extras) == SelectSeq(extras, LAMBDA x : x.kind = "gui")

\* C34: a render call takes every instance the GUI has queued and leaves
\* extra_instances empty until it has returned, on every path; through the
\* call its extra list holds exactly the GUI instances it took, so a frame
\* draws the instances queued since the previous call began and none that an
\* earlier call took and dropped.
C34_ExtrasConsumedByNextCall ==
    [][/\ (renderPc = "idle" /\ renderPc' # "idle") =>
              /\ local_extras' = extra_instances
              /\ extra_instances' = <<>>
       /\ renderPc # "idle" =>
              /\ extra_instances = <<>>
              /\ extra_instances' = <<>>
       /\ (renderPc # "idle" /\ renderPc' # "idle") =>
              GuiQueued(local_extras') = GuiQueued(local_extras)
       /\ (renderPc = "returned" /\ renderPc' = "idle") =>
              /\ local_extras' = <<>>
              /\ gpuLog' = <<>>]_vars

\* a call that found the window empty has returned without drawing: the
\* instance it took is dropped and the queue is empty
C34_Witness ==
    /\ renderPc = "returned"
    /\ ZeroSize(size)
    /\ GuiQueued(local_extras) = << Instance("gui", CameraCoord, Cube1x1, FALSE) >>
    /\ extra_instances = <<>>
    /\ gpuLog = <<>>
    /\ tileTriggers > 0

\* the decorations computed from fnIn
Decorations == Unwrap(fnOut)
\* how many decorations of a kind lie at coordinate c
DecorCount(kind, c) ==
    Cardinality({i \in DOMAIN Decorations : Decorations[i].kind = kind /\ Decorations[i].coord = c})

\* C35: the decorations of a frame are exactly one link line per entry of the
\* tile data holding a link target, one item icon per entry holding a
\* held-item id, and one arrow per tile of the snapshot whose facing
\* direction resolves, coloured with the tile type's direction colour or
\* with the default when the type names none; there are no others.
C35_OneDecorationPerTile ==
    fnOut # None =>
        /\ \A i \in DOMAIN Decorations : Decorations[i].kind \in {"link", "item", "arrow"}
        /\ \A c \in Coords :
              /\ DecorCount("link", c) =
                    IF c \in DOMAIN fnIn.all_data /\ HasCoord(fnIn.all_data[c], "link") THEN 1 ELSE 0
              /\ DecorCount("item", c) =
                    IF c \in DOMAIN fnIn.all_data /\ HasId(fnIn.all_data[c], "item") THEN 1 ELSE 0
              /\ DecorCount("arrow", c) =
                    IF c \in DOMAIN fnIn.render_info /\ HasDirection(fnIn.all_data, c) THEN 1 ELSE 0
        /\ \A i \in DOMAIN Decorations :
              Decorations[i].kind = "arrow" =>
                  LET data == fnIn.tiles[fnIn.render_info[Decorations[i].coord]].data IN
                  Decorations[i].color =
                      IF "direction_color" \in DOMAIN data THEN data["direction_color"].v
                      ELSE "ORANGE"

\* the instance buffer and the descriptors finish_prepare produced
GuiBatch == Unwrap(fnOut2)
\* the instances of model m in a list, in the order of the list
OfModel(q, m) == SelectSeq(q, LAMBDA x : x.model = m)

\* C36: the instance buffer of the GUI's batch is in model order; the
\* instances of every model are in it in the order they were pushed; and
\* inside the slice of every descriptor the element indices ascend.
C36_StableSortByModel ==
    fnOut2 # None =>
        LET buf == GuiBatch.instances IN
        /\ Len(buf) = Len(Pushed)
        /\ \A i, j \in DOMAIN buf : i < j => KeyRank(buf[i].model) <= KeyRank(buf[j].model)
        /\ \A k \in DOMAIN ModelIds : OfModel(buf, ModelIds[k]) = OfModel(Pushed, ModelIds[k])
        /\ \A k \in DOMAIN GuiBatch.draws :
              \A i, j \in Slice(GuiBatch.draws[k]) :
                  /\ buf[i].model = GuiBatch.draws[k].model
                  /\ i < j => buf[i].index < buf[j].index

\* three elements made in the order tile, cube, tile are batched with the
\* cube first and the two tile elements behind it, indices 0 then 2
C36_Witness ==
    /\ fnOut2 # None
    /\ fnIn = << "tile_model", Cube1x1, "tile_model" >>
    /\ GuiBatch.instances = << GameElement(Cube1x1, 1), GameElement("tile_model", 0),
                               GameElement("tile_model", 2) >>
    /\ GuiBatch.count = 2

\* the positions of an operation in the log of the running call
PositionsOf(op) == {i \in DOMAIN gpuLog : gpuLog[i].op = op}
\* the operations of the readback: mapping the staging buffer, waiting for
\* it, handing the image over, unmapping
ReadbackOps == {"map_async", "poll_wait", "set_image", "unmap"}

\* C37: a frame that draws submits once; with a screenshot requested it maps
\* the staging buffer and waits for it once each, after the submission, the
\* wait after the mapping, and every render pass, every draw and the
\* texture-to-buffer copy lie before the submission with no operation of the
\* readback among them; a frame without a screenshot has no operation of
\* the readback at all.
C37_ReadbackAfterSubmit ==
    (renderPc = "returned" /\ HasOp(gpuLog, "submit")) =>
        /\ Cardinality(PositionsOf("submit")) = 1
        /\ \A s \in PositionsOf("submit") :
              /\ \A i \in DOMAIN gpuLog : gpuLog[i].op \in ReadbackOps => s < i
              /\ \A i \in DOMAIN gpuLog :
                    (IsPass(gpuLog[i]) \/ gpuLog[i].op \in {"draw", "multi_draw_indexed_indirect",
                                                            "copy_texture_to_buffer"}) => i < s
        /\ screenshotting =>
              /\ Cardinality(PositionsOf("copy_texture_to_buffer")) = 1
              /\ Cardinality(PositionsOf("map_async")) = 1
              /\ Cardinality(PositionsOf("poll_wait")) = 1
              /\ \A m \in PositionsOf("map_async"), w \in PositionsOf("poll_wait") : m < w
        /\ ~screenshotting => \A i \in DOMAIN gpuLog : gpuLog[i].op \notin ReadbackOps

\* a frame with a screenshot has returned: it mapped the staging buffer right
\* after its submission and waited for it before presenting
C37_Witness ==
    /\ renderPc = "returned"
    /\ screenshotting
    /\ \E s \in PositionsOf("submit") :
          /\ gpuLog[s - 1].op = "copy_texture_to_buffer"
          /\ gpuLog[s + 1].op = "map_async"
          /\ gpuLog[s + 2].op = "poll_wait"
    /\ gpuLog[Len(gpuLog)].op = "present"

\* the lists of the first and of the second recompute
FirstList == Unwrap(fnOut)
SecondList == Unwrap(fnOut2)
\* squared distance of an instance's tile from the camera
DistanceOf(x) == DistanceSquared(CameraCoord, x.coord)
SetOf(q) == {q[i] : i \in DOMAIN q}

\* C38 as stated: two recomputes over the same snapshot, culling range and
\* camera produce the same instance sequence, tiles at equal distance
\* included.
C38_SameSequence == (fnOut # None /\ fnOut2 # None) => FirstList = SecondList

\* C38: two recomputes over the same snapshot, culling range and camera
\* produce the same instances, and at every position of the two lists
\* instances at the same distance from the camera: the lists differ at most
\* in the order of tiles that are equidistant from the camera.
C38_SameUpToEquidistant ==
    (fnOut # None /\ fnOut2 # None) =>
        /\ Len(FirstList) = Len(SecondList)
        /\ SetOf(FirstList) = SetOf(SecondList)
        /\ \A i \in DOMAIN FirstList : DistanceOf(FirstList[i]) = DistanceOf(SecondList[i])
        /\ \A i \in DOMAIN FirstList :
              FirstList[i] # SecondList[i] =>
                  \E j \in DOMAIN FirstList :
                      /\ j # i
                      /\ FirstList[j] = SecondList[i]
                      /\ DistanceOf(FirstList[j]) = DistanceOf(FirstList[i])

\* two recomputes over a snapshot with tiles at (1,0) and (-1,0) gave the two
\* tiles in opposite orders
C38_Witness ==
    /\ fnOut # None
    /\ fnOut2 # None
    /\ {<<1, 0>>, <<-1, 0>>} \subseteq DOMAIN fnIn.render_info
    /\ \E i \in DOMAIN FirstList :
          /\ i + 1 \in DOMAIN FirstList
          /\ FirstList[i].coord = <<1, 0>>
          /\ FirstList[i + 1].coord = <<-1, 0>>
          /\ SecondList[i].coord = <<-1, 0>>
          /\ SecondList[i + 1].coord = <<1, 0>>

\* C39: a recomputed tile instance list is in order of non-increasing
\* squared distance from the camera; it holds exactly one instance per
\* coordinate of the snapshot, drawn with the model of the tile there, and
\* one filler instance of the `none` tile per coordinate of the culling range
\* that the snapshot lacks and that passes the bound test, and nothing else.
C39_FarthestFirstWithFillers ==
    fnOut # None =>
        LET fillers == {c \in RangeCoords \ DOMAIN fnIn.render_info :
                            WithinBound(c, WorldPos(CameraCoord), BoundOf(fnIn.screen))}
        IN  /\ \A i, j \in DOMAIN FirstList :
                  i < j => DistanceOf(FirstList[i]) >= DistanceOf(FirstList[j])
            /\ {FirstList[i].coord : i \in DOMAIN FirstList} = DOMAIN fnIn.render_info \cup fillers
            /\ \A i, j \in DOMAIN FirstList : FirstList[i].coord = FirstList[j].coord => i = j
            /\ \A i \in DOMAIN FirstList :
                  FirstList[i].model =
                      IF FirstList[i].coord \in fillers
                      THEN TileModel(RegistryNone, EmptyMap, FirstList[i].coord)
                      ELSE TileModel(fnIn.render_info[FirstList[i].coord], EmptyMap,
                                     FirstList[i].coord)

\* a snapshot with a tile at the camera only, on the small screen: the list
\* has the fillers of (1,0) and (-1,0) ahead of the tile, and none for (2,0),
\* which fails the bound test
C39_Witness ==
    /\ fnOut # None
    /\ DOMAIN fnIn.render_info = {<<0, 0>>}
    /\ fnIn.render_info[<<0, 0>>] = "tile"
    /\ fnIn.screen = <<0, 0>>
    /\ Len(FirstList) = 3
    /\ FirstList[1].model = "none_model"
    /\ FirstList[2].model = "none_model"
    /\ FirstList[3].coord = <<0, 0>>
    /\ FirstList[3].model = "tile_inactive_model"

\* the last call on the GuiState and the call before it
LastCall == Unwrap(fnOut)
CallBefore == Unwrap(fnOut2)
\* a call that switched the screen
Switched(call) ==
    \/ call.op \in {"switch_screen", "switch_screen_sub"}
    \/ call.op = "switch_screen_when" /\ call.ret = Some(TRUE)

\* C40: after a call that switches, previous is the screen the call found
\* and screen is the new one; after return_screen, screen is the previous
\* screen the call found, if any, and previous is empty; switch_screen_when
\* returns whether its predicate held on the state it found, and leaves the
\* state as it was when it did not; a return_screen right after a switch
\* restores the screen the switch found, and a return_screen right after a
\* return_screen changes nothing.
C40_ScreenHistoryDepthOne ==
    fnOut # None =>
        LET before == LastCall.before IN
        /\ LastCall.op = "switch_screen_when" =>
              /\ LastCall.ret = Some(Holds(Unwrap(LastCall.when), before))
              /\ LastCall.ret = Some(FALSE) => fnIn = before
        /\ Switched(LastCall) =>
              /\ fnIn.screen = Unwrap(LastCall.new)
              /\ fnIn.previous = Some(before.screen)
        /\ LastCall.op # "switch_screen_sub" => fnIn.substate = before.substate
        /\ LastCall.op = "switch_screen_sub" => fnIn.substate = Unwrap(LastCall.sub)
        /\ LastCall.op = "return_screen" =>
              /\ fnIn.previous = None
              /\ before.previous # None => fnIn.screen = Unwrap(before.previous)
              /\ before.previous = None => fnIn.screen = before.screen
              /\ (fnOut2 # None /\ Switched(CallBefore)) => fnIn.screen = CallBefore.before.screen
              /\ (fnOut2 # None /\ CallBefore.op = "return_screen") => fnIn = before

\* after two switches, from the main menu to the options and on to the game,
\* return_screen has brought back the options screen, not the main menu
C40_Witness ==
    /\ fnOut # None
    /\ fnOut2 # None
    /\ LastCall.op = "return_screen"
    /\ CallBefore.op = "switch_screen"
    /\ CallBefore.new = Some("Ingame")
    /\ CallBefore.before = [screen |-> "Options", previous |-> Some("MainMenu"), substate |-> "None"]
    /\ fnIn = [screen |-> "Options", previous |-> None, substate |-> "None"]

====
